---- MODULE Spec2Model ----
(***************************************************************************)
(* Enigma+ rotor engine: symbol codec, permutation validator, single-rotor *)
(* transform, multi-rotor pipeline with the stepping cascade, and the text *)
(* codec (encryptText / decryptText) of src/src/lib/rotors.                *)
(*                                                                         *)
(* JS arrays are 0-based; the sequences below are 1-based, so the JS       *)
(* expression a[i] is written a[i + 1].  A JS number that is not an        *)
(* integer (10.5, 37.5) is written NonIntBase + n: the validator never     *)
(* does arithmetic on such a value, it only asks Number.isInteger.         *)
(***************************************************************************)
EXTENDS Integers, Sequences, FiniteSets, TLC

(***************************************************************************)
(* Bounds of the model.                                                    *)
(***************************************************************************)
MaxLen == 2          \* short texts: every text over TextChars up to this length
MaxRotors == 2       \* configurations list at most this many rotor ids
LongLen == 130       \* length of the long text (crosses two cascades of a 2-rotor stack)
MaxSteps == 4100     \* characters fed to one rotor stack by the character driver
MaxMut == 2          \* point mutations applied to a base permutation candidate
TwinLen == 2         \* length of the plaintexts encrypted side by side

(***************************************************************************)
(* Program constants (types.ts, shown in README.md).                       *)
(***************************************************************************)
CHARSET ==
  << "A","B","C","D","E","F","G","H","I","J","K","L","M",
     "N","O","P","Q","R","S","T","U","V","W","X","Y","Z",
     "a","b","c","d","e","f","g","h","i","j","k","l","m",
     "n","o","p","q","r","s","t","u","v","w","x","y","z",
     "0","1","2","3","4","5","6","7","8","9"," ","." >>
ROTOR_POSITION_MIN == 1
ROTOR_POSITION_MAX == 64
MAX_ACTIVE_ROTORS == 8

NonIntBase == 1000
IsInteger(v) == v < NonIntBase

NoError == [code |-> "NONE", indices |-> <<>>, values |-> <<>>]
Err(c, is, vs) == [code |-> c, indices |-> is, values |-> vs]

(***************************************************************************)
(* validation.ts                                                           *)
(***************************************************************************)
isValidCharacter(char) == \E i \in 1..Len(CHARSET) : CHARSET[i] = char

\* the members of a finite set of integers in increasing order
Ascending(S) ==
  [k \in 1..Cardinality(S) |-> CHOOSE i \in S : Cardinality({j \in S : j <= i}) = k]

MinOrMinusOne(S) == IF S = {} THEN -1 ELSE CHOOSE i \in S : \A j \in S : i <= j

\* the element loop keeping the last offender instead of throwing at the first
LastBadElement(permutation) ==
  LET bad == {i \in 0..(Len(permutation) - 1) :
                \/ ~IsInteger(permutation[i + 1])
                \/ permutation[i + 1] < 0
                \/ permutation[i + 1] > 63}
  IN IF bad = {} THEN -1 ELSE CHOOSE i \in bad : \A j \in bad : j <= i

\* the element loop throws at the first index (0-based) whose element is not
\* an integer in 0..63; -1 when the loop runs to its end
FirstBadElement(permutation) ==
  MinOrMinusOne({i \in 0..(Len(permutation) - 1) :
                   \/ ~IsInteger(permutation[i + 1])
                   \/ permutation[i + 1] < 0
                   \/ permutation[i + 1] > 63})

SeenValues(permutation) == {permutation[k] : k \in 1..Len(permutation)}

\* a loop that compares each element with its left neighbour only
DuplicatesAdjacentOnly(permutation) ==
  LET again == {i \in 1..(Len(permutation) - 1) : permutation[i] = permutation[i + 1]}
      order == Ascending(again)
  IN [k \in 1..Len(order) |-> permutation[order[k] + 1]]

\* the loop over `seen`: a value is pushed to `duplicates` each time it is met
\* again, so the list holds the elements that have an equal element before them
\* (none when `seen` ends up with as many values as there are elements)
Duplicates(permutation) ==
  IF Cardinality(SeenValues(permutation)) = Len(permutation) THEN <<>>
  ELSE
  LET again == {i \in 0..(Len(permutation) - 1) :
                  \E j \in 0..(i - 1) : permutation[j + 1] = permutation[i + 1]}
      order == Ascending(again)
  IN [k \in 1..Len(order) |-> permutation[order[k] + 1]]

\* for (i = 0; i < 64; i++) if (!seen.has(i)) missing.push(i)
Missing(seen) == Ascending({i \in 0..63 : i \notin seen})

\* the validator returning after the element loop, its uniqueness part left out
validateRotorPermutationNoBijection(permutation) ==
  IF Len(permutation) # 64
  THEN Err("INVALID_LENGTH", <<>>, <<Len(permutation)>>)
  ELSE LET b == FirstBadElement(permutation) IN
    IF b # -1
    THEN IF ~IsInteger(permutation[b + 1])
         THEN Err("NON_INTEGER_ELEMENT", <<b>>, <<permutation[b + 1]>>)
         ELSE Err("OUT_OF_RANGE_ELEMENT", <<b>>, <<permutation[b + 1]>>)
    ELSE NoError

\* the validator with the two uniqueness checks in the other order
validateRotorPermutationMissingFirst(permutation) ==
  IF Len(permutation) # 64
  THEN Err("INVALID_LENGTH", <<>>, <<Len(permutation)>>)
  ELSE LET b == FirstBadElement(permutation) IN
    IF b # -1
    THEN IF ~IsInteger(permutation[b + 1])
         THEN Err("NON_INTEGER_ELEMENT", <<b>>, <<permutation[b + 1]>>)
         ELSE Err("OUT_OF_RANGE_ELEMENT", <<b>>, <<permutation[b + 1]>>)
    ELSE LET duplicates == Duplicates(permutation)
             missing == Missing(SeenValues(permutation)) IN
      IF Len(missing) > 0
      THEN Err("MISSING_VALUES", <<>>, missing)
      ELSE IF Len(duplicates) > 0
      THEN Err("DUPLICATE_VALUES", <<>>, duplicates)
      ELSE NoError

validateRotorPermutation(permutation) ==
  IF Len(permutation) # 64
  THEN Err("INVALID_LENGTH", <<>>, <<Len(permutation)>>)
  ELSE LET b == FirstBadElement(permutation) IN
    IF b # -1
    THEN IF ~IsInteger(permutation[b + 1])
         THEN Err("NON_INTEGER_ELEMENT", <<b>>, <<permutation[b + 1]>>)
         ELSE Err("OUT_OF_RANGE_ELEMENT", <<b>>, <<permutation[b + 1]>>)
    ELSE LET duplicates == Duplicates(permutation)
             missing == Missing(SeenValues(permutation)) IN
      IF Len(duplicates) > 0
      THEN Err("DUPLICATE_VALUES", <<>>, duplicates)
      ELSE IF Len(missing) > 0
      THEN Err("MISSING_VALUES", <<>>, missing)
      ELSE NoError

validateRotorPosition(position) ==
  IF ~IsInteger(position)
  THEN Err("NON_INTEGER_POSITION", <<>>, <<position>>)
  ELSE IF position < ROTOR_POSITION_MIN \/ position > ROTOR_POSITION_MAX
  THEN Err("POSITION_OUT_OF_RANGE", <<>>, <<position>>)
  ELSE NoError

\* validateRotorConfig that does not look at the permutation
validateRotorConfigAnyPermutation(config) ==
  IF config.id = ""
  THEN Err("INVALID_ID", <<>>, <<>>)
  ELSE IF config.name = ""
  THEN Err("INVALID_NAME", <<>>, <<>>)
  ELSE IF ~config.createdAt
  THEN Err("INVALID_CREATED_DATE", <<>>, <<>>)
  ELSE IF ~config.updatedAt
  THEN Err("INVALID_UPDATED_DATE", <<>>, <<>>)
  ELSE NoError

validateRotorConfig(config) ==
  IF config.id = ""
  THEN Err("INVALID_ID", <<>>, <<>>)
  ELSE IF config.name = ""
  THEN Err("INVALID_NAME", <<>>, <<>>)
  ELSE IF ~config.createdAt
  THEN Err("INVALID_CREATED_DATE", <<>>, <<>>)
  ELSE IF ~config.updatedAt
  THEN Err("INVALID_UPDATED_DATE", <<>>, <<>>)
  ELSE validateRotorPermutation(config.permutation)

\* index (0-based) of the first start position validateRotorPosition rejects, or -1
FirstBadPosition(startPositions) ==
  MinOrMinusOne({i \in 0..(Len(startPositions) - 1) :
                   validateRotorPosition(startPositions[i + 1]).code # "NONE"})

\* the configuration validator with the rotor limit off by one (>= for >)
validateEncryptionConfigOffByOne(config) ==
  IF Len(config.rotorIds) = 0
  THEN Err("NO_ROTORS_SPECIFIED", <<>>, <<>>)
  ELSE IF Len(config.rotorIds) >= MAX_ACTIVE_ROTORS
  THEN Err("TOO_MANY_ROTORS", <<>>, <<Len(config.rotorIds)>>)
  ELSE IF Len(config.startPositions) # Len(config.rotorIds)
  THEN Err("POSITION_COUNT_MISMATCH", <<>>, <<Len(config.startPositions), Len(config.rotorIds)>>)
  ELSE LET b == FirstBadPosition(config.startPositions) IN
    IF b # -1
    THEN Err("INVALID_START_POSITION", <<b>>, <<config.startPositions[b + 1]>>)
    ELSE IF Cardinality({config.rotorIds[k] : k \in 1..Len(config.rotorIds)}) # Len(config.rotorIds)
    THEN Err("DUPLICATE_ROTOR_IDS", <<>>, <<>>)
    ELSE NoError

validateEncryptionConfig(config) ==
  IF Len(config.rotorIds) = 0
  THEN Err("NO_ROTORS_SPECIFIED", <<>>, <<>>)
  ELSE IF Len(config.rotorIds) > MAX_ACTIVE_ROTORS
  THEN Err("TOO_MANY_ROTORS", <<>>, <<Len(config.rotorIds)>>)
  ELSE IF Len(config.startPositions) # Len(config.rotorIds)
  THEN Err("POSITION_COUNT_MISMATCH", <<>>, <<Len(config.startPositions), Len(config.rotorIds)>>)
  ELSE LET b == FirstBadPosition(config.startPositions) IN
    IF b # -1
    THEN Err("INVALID_START_POSITION", <<b>>, <<config.startPositions[b + 1]>>)
    ELSE IF Cardinality({config.rotorIds[k] : k \in 1..Len(config.rotorIds)}) # Len(config.rotorIds)
    THEN Err("DUPLICATE_ROTOR_IDS", <<>>, <<>>)
    ELSE NoError

\* the distinct invalid characters of the text, in order of first occurrence
InvalidChars(text) ==
  LET first == {i \in 0..(Len(text) - 1) :
                  /\ ~isValidCharacter(text[i + 1])
                  /\ ~(\E j \in 0..(i - 1) : text[j + 1] = text[i + 1])}
      order == Ascending(first)
  IN [k \in 1..Len(order) |-> text[order[k] + 1]]

validateEncryptableText(text) ==
  LET invalidChars == InvalidChars(text) IN
  IF Len(invalidChars) > 0
  THEN Err("INVALID_CHARACTERS", <<>>, invalidChars)
  ELSE NoError

positionToIndex(position) == position - 1

(***************************************************************************)
(* core.ts                                                                 *)
(***************************************************************************)
\* Array.prototype.indexOf / String.prototype.indexOf: first 0-based index, or -1
IndexOf(arr, v) == MinOrMinusOne({i \in 0..(Len(arr) - 1) : arr[i + 1] = v})

\* charToIndex reading a lower-case letter as its capital
charToIndexCaseBlind(char) ==
  LET index == IndexOf(CHARSET, char) IN
  IF index >= 26 /\ index <= 51 THEN index - 26 ELSE index

charToIndex(char) == IndexOf(CHARSET, char)

\* indexToChar reading the alphabet one place further on
indexToCharShifted(index) == CHARSET[((index + 1) % Len(CHARSET)) + 1]

indexToChar(index) == CHARSET[index + 1]

\* the result of a single-character operation: the character, or what was thrown
Thrown(e) == [err |-> e, ch |-> ""]
Returned(c) == [err |-> "NONE", ch |-> c]

\* createActiveRotor that ignores the start position
createActiveRotorAtOne(config, startPosition) ==
  [config |-> config, position |-> 1, stepCount |-> 0]

createActiveRotor(config, startPosition) ==
  [config |-> config, position |-> startPosition, stepCount |-> 0]

\* stepRotor without the wrap from 64 to 1
stepRotorNoWrap(rotor) ==
  [rotor EXCEPT !.position = rotor.position + 1,
                !.stepCount = rotor.stepCount + 1]

stepRotor(rotor) ==
  [rotor EXCEPT !.position = IF rotor.position = 64 THEN 1 ELSE rotor.position + 1,
                !.stepCount = rotor.stepCount + 1]

\* the forward transform that does not take the position offset off again
encryptCharacterThroughRotorNoOffset(char, rotor) ==
  IF ~isValidCharacter(char) THEN Thrown("INVALID_CHARACTER")
  ELSE IF validateRotorPosition(rotor.position).code # "NONE"
  THEN Thrown(validateRotorPosition(rotor.position).code)
  ELSE
    LET inputIndex == charToIndex(char)
        rotorOffset == positionToIndex(rotor.position)
        adjustedInputIndex == (inputIndex + rotorOffset) % 64
        permutedIndex == rotor.config.permutation[adjustedInputIndex + 1]
    IN Returned(indexToChar(permutedIndex))

encryptCharacterThroughRotor(char, rotor) ==
  IF ~isValidCharacter(char) THEN Thrown("INVALID_CHARACTER")
  ELSE IF validateRotorPosition(rotor.position).code # "NONE"
  THEN Thrown(validateRotorPosition(rotor.position).code)
  ELSE
    LET inputIndex == charToIndex(char)
        rotorOffset == positionToIndex(rotor.position)
        adjustedInputIndex == (inputIndex + rotorOffset) % 64
        permutedIndex == rotor.config.permutation[adjustedInputIndex + 1]
        finalOutputIndex == (permutedIndex - rotorOffset + 64) % 64
    IN Returned(indexToChar(finalOutputIndex))

\* the inverse transform looking the character up without the position offset
decryptCharacterThroughRotorNoOffset(char, rotor) ==
  IF ~isValidCharacter(char) THEN Thrown("INVALID_CHARACTER")
  ELSE IF validateRotorPosition(rotor.position).code # "NONE"
  THEN Thrown(validateRotorPosition(rotor.position).code)
  ELSE
    LET outputIndex == charToIndex(char)
        rotorOffset == positionToIndex(rotor.position)
        inputIndex == IndexOf(rotor.config.permutation, outputIndex)
        finalInputIndex == (inputIndex - rotorOffset + 64) % 64
    IN IF inputIndex = -1
       THEN Thrown("OUTPUT_NOT_FOUND")
       ELSE Returned(indexToChar(finalInputIndex))

decryptCharacterThroughRotor(char, rotor) ==
  IF ~isValidCharacter(char) THEN Thrown("INVALID_CHARACTER")
  ELSE IF validateRotorPosition(rotor.position).code # "NONE"
  THEN Thrown(validateRotorPosition(rotor.position).code)
  ELSE
    LET outputIndex == charToIndex(char)
        rotorOffset == positionToIndex(rotor.position)
        adjustedOutputIndex == (outputIndex + rotorOffset) % 64
        inputIndex == IndexOf(rotor.config.permutation, adjustedOutputIndex)
        finalInputIndex == (inputIndex - rotorOffset + 64) % 64
    IN IF inputIndex = -1
       THEN Thrown("OUTPUT_NOT_FOUND")
       ELSE Returned(indexToChar(finalInputIndex))

\* the forward loop of encryptCharacter: rotors i, i+1, ... (0-based), left to right
RECURSIVE ForwardPass(_, _, _)
ForwardPass(r, rotors, i) ==
  IF i >= Len(rotors) \/ r.err # "NONE" THEN r
  ELSE ForwardPass(encryptCharacterThroughRotor(r.ch, rotors[i + 1]), rotors, i + 1)

\* the reverse loop of decryptCharacter: rotors i, i-1, ..., 0 (0-based)
RECURSIVE ReversePass(_, _, _)
ReversePass(r, rotors, i) ==
  IF i < 0 \/ r.err # "NONE" THEN r
  ELSE ReversePass(decryptCharacterThroughRotor(r.ch, rotors[i + 1]), rotors, i - 1)

\* a conventional odometer: carry when the rotor's position wraps round to 1
RECURSIVE CascadeOnWrap(_, _)
CascadeOnWrap(rotors, i) ==
  IF i > 0 /\ rotors[i + 1].position = 1
  THEN CascadeOnWrap([rotors EXCEPT ![i] = stepRotor(rotors[i])], i - 1)
  ELSE rotors

\* the cascade loop: for (i = lastRotorIndex; i > 0; i--)
RECURSIVE Cascade(_, _)
Cascade(rotors, i) ==
  IF i > 0 /\ rotors[i + 1].stepCount % 64 = 0
  THEN Cascade([rotors EXCEPT ![i] = stepRotor(rotors[i])], i - 1)
  ELSE rotors

\* no rotor steps
StepAndCascadeNever(rotors) == rotors

\* step the rightmost rotor, then cascade
StepAndCascade(rotors) ==
  LET lastRotorIndex == Len(rotors) - 1 IN
  Cascade([rotors EXCEPT ![lastRotorIndex + 1] = stepRotor(rotors[lastRotorIndex + 1])],
          lastRotorIndex)

\* encryptCharacter stepping before the forward transforms
encryptCharacterStepFirst(char, rotors) ==
  IF Len(rotors) = 0 THEN [err |-> "NO_ROTORS", ch |-> "", rotors |-> rotors]
  ELSE LET stepped == StepAndCascade(rotors)
           r == ForwardPass(Returned(char), stepped, 0) IN
    [err |-> r.err, ch |-> r.ch, rotors |-> stepped]

\* [err, ch, rotors]: the character returned (or the error thrown) and the
\* rotors array as the call leaves it
encryptCharacter(char, rotors) ==
  IF Len(rotors) = 0 THEN [err |-> "NO_ROTORS", ch |-> "", rotors |-> rotors]
  ELSE LET r == ForwardPass(Returned(char), rotors, 0) IN
    IF r.err # "NONE"
    THEN [err |-> r.err, ch |-> "", rotors |-> rotors]
    ELSE [err |-> "NONE", ch |-> r.ch, rotors |-> StepAndCascade(rotors)]

\* decryptCharacter stepping the rightmost rotor only, without the cascade
decryptCharacterNoCascade(char, rotors) ==
  IF Len(rotors) = 0 THEN [err |-> "NO_ROTORS", ch |-> "", rotors |-> rotors]
  ELSE LET stepped == [rotors EXCEPT ![Len(rotors)] = stepRotor(rotors[Len(rotors)])]
           r == ReversePass(Returned(char), stepped, Len(stepped) - 1) IN
    [err |-> r.err, ch |-> r.ch, rotors |-> stepped]

decryptCharacter(char, rotors) ==
  IF Len(rotors) = 0 THEN [err |-> "NO_ROTORS", ch |-> "", rotors |-> rotors]
  ELSE LET stepped == StepAndCascade(rotors)
           r == ReversePass(Returned(char), stepped, Len(stepped) - 1) IN
    [err |-> r.err, ch |-> r.ch, rotors |-> stepped]

\* the map leaving out an id that has no definition instead of throwing
RECURSIVE CreateActiveRotorsSkipUnknown(_, _, _, _)
CreateActiveRotorsSkipUnknown(config, availableRotors, i, acc) ==
  IF i >= Len(config.rotorIds) THEN [err |-> NoError, rotors |-> acc]
  ELSE LET rotorId == config.rotorIds[i + 1] IN
    IF rotorId \notin DOMAIN availableRotors
    THEN CreateActiveRotorsSkipUnknown(config, availableRotors, i + 1, acc)
    ELSE LET v == validateRotorConfig(availableRotors[rotorId]) IN
    IF v.code # "NONE"
    THEN [err |-> v, rotors |-> <<>>]
    ELSE CreateActiveRotorsSkipUnknown(config, availableRotors, i + 1,
           Append(acc, createActiveRotor(availableRotors[rotorId], config.startPositions[i + 1])))

\* config.rotorIds.map(...): the active rotors, or the first error thrown
RECURSIVE CreateActiveRotors(_, _, _, _)
CreateActiveRotors(config, availableRotors, i, acc) ==
  IF i >= Len(config.rotorIds) THEN [err |-> NoError, rotors |-> acc]
  ELSE LET rotorId == config.rotorIds[i + 1] IN
    IF rotorId \notin DOMAIN availableRotors
    THEN [err |-> Err("ROTOR_NOT_FOUND", <<i>>, <<>>), rotors |-> <<>>]
    ELSE LET v == validateRotorConfig(availableRotors[rotorId]) IN
    IF v.code # "NONE"
    THEN [err |-> v, rotors |-> <<>>]
    ELSE CreateActiveRotors(config, availableRotors, i + 1,
           Append(acc, createActiveRotor(availableRotors[rotorId], config.startPositions[i + 1])))

\* everything encryptText / decryptText do before their character loop
Prepare(text, config, availableRotors) ==
  IF validateEncryptionConfig(config).code # "NONE"
  THEN [err |-> validateEncryptionConfig(config), rotors |-> <<>>]
  ELSE IF validateEncryptableText(text).code # "NONE"
  THEN [err |-> validateEncryptableText(text), rotors |-> <<>>]
  ELSE CreateActiveRotors(config, availableRotors, 0, <<>>)

Positions(rotors) == [k \in 1..Len(rotors) |-> rotors[k].position]

(***************************************************************************)
(* generator.ts: the deterministic definitions, and the caller's lookup.   *)
(***************************************************************************)
RotorConfigOf(id, permutation) ==
  [id |-> id, name |-> id, permutation |-> permutation,
   createdAt |-> TRUE, updatedAt |-> TRUE]

\* a shift by two places
ShiftPermutationByTwo == [k \in 1..64 |-> ((k - 1) + 2) % 64]

\* createTestRotor: Array.from({length: 64}, (_, i) => (i + 1) % 64)
ShiftPermutation == [k \in 1..64 |-> ((k - 1) + 1) % 64]
\* createIdentityRotor: Array.from({length: 64}, (_, i) => i)
IdentityPermutation == [k \in 1..64 |-> k - 1]
\* user-defined bijections that do not commute with rotation
AffinePermutation == [k \in 1..64 |-> (5 * (k - 1) + 3) % 64]
SwapPermutation == [k \in 1..64 |-> IF k = 1 THEN 1 ELSE IF k = 2 THEN 0 ELSE k - 1]
ReversePermutation == [k \in 1..64 |-> 63 - (k - 1)]
\* a stored definition that is no bijection: 37 replaced by a second 10
DupPermutation == [k \in 1..64 |-> IF k - 1 = 37 THEN 10 ELSE k - 1]

createTestRotor == RotorConfigOf("shift", ShiftPermutation)
createIdentityRotor == RotorConfigOf("ident", IdentityPermutation)

\* availableRotors: Map<string, RotorConfig> supplied by the caller
AvailableRotors ==
  [id \in {"shift", "ident", "affine", "dup", "shift2", "ident2"} |->
     CASE id = "shift" -> createTestRotor
       [] id = "ident" -> createIdentityRotor
       [] id = "shift2" -> RotorConfigOf("shift2", ShiftPermutation)
       [] id = "ident2" -> RotorConfigOf("ident2", IdentityPermutation)
       [] id = "affine" -> RotorConfigOf("affine", AffinePermutation)
       [] id = "dup" -> RotorConfigOf("dup", DupPermutation)]

(***************************************************************************)
(* Inputs.                                                                 *)
(***************************************************************************)
SeqsUpTo(S, n) == UNION {[1..k -> S] : k \in 0..n}

TextChars == {"A", "z", "!"}
LongText == [k \in 1..LongLen |-> CHARSET[((7 * k) % 64) + 1]]
Texts == SeqsUpTo(TextChars, MaxLen) \cup {LongText}

RotorIdChoices == {"shift", "ident", "affine", "dup", "ghost"}
PosChoices == {0, 1, 64}
Configs ==
  {[rotorIds |-> ids, startPositions |-> ps] :
     ids \in SeqsUpTo(RotorIdChoices, MaxRotors), ps \in SeqsUpTo(PosChoices, MaxRotors)}

Modes == {"roundtrip", "decrypt", "encryptChar", "decryptChar"}

NoResult ==
  [returned |-> FALSE, result |-> <<>>, finalPositions |-> <<>>,
   charactersProcessed |-> 0, warnings |-> <<>>]

(***************************************************************************)
(* State.                                                                  *)
(***************************************************************************)
VARIABLES
  pc,            \* where the caller of the text codec is
  mode,          \* what the caller does: round trip, decrypt only, one character call
  text,          \* the text handed to the first call
  config,        \* EncryptionConfig: rotorIds, startPositions
  ciphertext,    \* the text handed to decryptText
  activeRotors,  \* the running call's ActiveRotor[]
  idx,           \* characters of the input consumed by the running loop
  result,        \* the running call's `result`
  warnings,      \* the running call's `warnings`
  error,         \* what the failed call threw
  encResult,     \* CryptographyResult returned by encryptText
  decResult,     \* CryptographyResult returned by decryptText
  encTrace,      \* history: positions at which character k was forward-transformed
  decTrace,      \* history: positions at which character k was inverse-transformed
  drvMode,       \* character driver: which of encryptCharacter / decryptCharacter it calls
  drvRotors,     \* character driver: its ActiveRotor[]
  drvCount,      \* character driver: in-alphabet characters processed so far
  drvLast,       \* character driver: the character the last call returned
  candidate,     \* validator: the candidate permutation
  verdict,       \* validator: what validateRotorPermutation threw (NoError: nothing)
  permPc,        \* validator: "new", "accepted" or "rejected"
  trRotor,       \* single-rotor transform: the rotor (definition and position)
  trChar,        \* single-rotor transform: the input character
  trEnc,         \* single-rotor transform: result of the forward transform
  trDec,         \* single-rotor transform: result of the inverse transform of trEnc
  trPc,          \* single-rotor transform: "start", "encrypted" or "decrypted"
  cfgCandidate,  \* configuration validator: the candidate EncryptionConfig
  cfgVerdict,    \* configuration validator: what validateEncryptionConfig threw
  cfgPc,         \* configuration validator: "new", "accepted" or "rejected"
  calls,         \* two text-codec calls in flight: the locals of each
  lookup,        \* two text-codec calls in flight: the Map they were both given
  overlap,       \* two text-codec calls in flight: a call stepped inside the other's loop
  stIn,          \* stepRotor: the rotor passed in
  stOut,         \* stepRotor: the rotor returned
  stPc,          \* stepRotor: "start" or "stepped"
  cdIn,          \* symbol codec: the input (a character or an index)
  cdMid,         \* symbol codec: the first conversion's result
  cdOut,         \* symbol codec: the second conversion's result
  cdPc,          \* symbol codec: which conversion comes next
  genKind,       \* generator: which utility runs
  genRandom,     \* generator: the stream crypto.getRandomValues will deliver
  genPerm,       \* generator: the permutation array being built
  genI,          \* generator: the Fisher-Yates loop variable i
  genErr,        \* generator: what the final validation threw
  genPc,         \* generator: "start", "shuffling", "done" or "failed"
  lsRotors,      \* rotor storage: the localStorage item under STORAGE_KEYS.ROTORS
  lastCall,      \* rotor storage: the last call, its arguments, result and the item before it
  known,         \* rotor storage: per id, the data of the last successful add / update
  mpState,       \* MessageProcessor: the component's EncryptionState
  mpPc,          \* MessageProcessor: "idle", or "importing" while handleProcess awaits
  mpAsked        \* MessageProcessor: the `state` the last handleProcess closed over

codecVars == <<pc, mode, text, config, ciphertext, activeRotors, idx, result,
               warnings, error, encResult, decResult, encTrace, decTrace>>

driverVars == <<drvMode, drvRotors, drvCount, drvLast>>
permVars == <<candidate, verdict, permPc>>
rotorVars == <<trRotor, trChar, trEnc, trDec, trPc>>

configVars == <<cfgCandidate, cfgVerdict, cfgPc>>
pairVars == <<calls, lookup, overlap>>
stepVars == <<stIn, stOut, stPc>>
symbolVars == <<cdIn, cdMid, cdOut, cdPc>>
genVars == <<genKind, genRandom, genPerm, genI, genErr, genPc>>
storeVars == <<lsRotors, lastCall, known>>
processorVars == <<mpState, mpPc, mpAsked>>
auxVars == <<configVars, pairVars, stepVars, symbolVars, genVars, storeVars,
             processorVars>>

vars == <<codecVars, driverVars, permVars, rotorVars, auxVars>>

\* the parts of the state a specification does not use stay at these values
CodecUnused ==
  /\ pc = "unused" /\ mode = "roundtrip" /\ text = <<>>
  /\ config = [rotorIds |-> <<>>, startPositions |-> <<>>]
  /\ ciphertext = <<>> /\ activeRotors = <<>> /\ idx = 0 /\ result = <<>>
  /\ warnings = <<>> /\ error = NoError /\ encResult = NoResult
  /\ decResult = NoResult /\ encTrace = <<>> /\ decTrace = <<>>
DriverUnused == drvMode = "unused" /\ drvRotors = <<>> /\ drvCount = 0 /\ drvLast = ""
PermUnused == candidate = <<>> /\ verdict = NoError /\ permPc = "unused"
RotorUnused ==
  /\ trRotor = <<>> /\ trChar = ""
  /\ trEnc = Returned("") /\ trDec = Returned("") /\ trPc = "unused"

ConfigUnused ==
  /\ cfgCandidate = [rotorIds |-> <<>>, startPositions |-> <<>>]
  /\ cfgVerdict = NoError /\ cfgPc = "unused"
PairUnused == calls = <<>> /\ lookup = <<>> /\ overlap = FALSE
StepUnused == stIn = <<>> /\ stOut = <<>> /\ stPc = "unused"
SymbolUnused == cdIn = "" /\ cdMid = "" /\ cdOut = "" /\ cdPc = "unused"
GenUnused ==
  /\ genKind = "unused" /\ genRandom = <<>> /\ genPerm = <<>> /\ genI = 0
  /\ genErr = NoError /\ genPc = "unused"
StoreUnused == lsRotors = <<>> /\ lastCall = <<>> /\ known = <<>>
ProcessorUnused == mpState = <<>> /\ mpPc = "unused" /\ mpAsked = <<>>
AuxUnused ==
  /\ ConfigUnused /\ PairUnused /\ StepUnused /\ SymbolUnused /\ GenUnused
  /\ StoreUnused /\ ProcessorUnused

Init ==
  /\ DriverUnused /\ PermUnused /\ RotorUnused /\ AuxUnused
  /\ pc = "idle"
  /\ mode \in Modes
  /\ text \in Texts
  /\ mode \in {"encryptChar", "decryptChar"} => Len(text) = 1
  /\ config \in Configs
  /\ ciphertext = <<>>
  /\ activeRotors = <<>>
  /\ idx = 0
  /\ result = <<>>
  /\ warnings = <<>>
  /\ error = NoError
  /\ encResult = NoResult
  /\ decResult = NoResult
  /\ encTrace = <<>>
  /\ decTrace = <<>>

(***************************************************************************)
(* encryptText                                                             *)
(***************************************************************************)
\* up to the character loop: validation and the creation of the active rotors
EncryptStart ==
  /\ pc = "idle" /\ mode = "roundtrip"
  /\ LET p == Prepare(text, config, AvailableRotors) IN
       IF p.err.code # "NONE"
       THEN /\ pc' = "failed"
            /\ error' = p.err
            /\ UNCHANGED activeRotors
       ELSE /\ pc' = "enc"
            /\ activeRotors' = p.rotors
            /\ UNCHANGED error
  /\ idx' = 0 /\ result' = <<>> /\ warnings' = <<>>
  /\ UNCHANGED <<mode, text, config, ciphertext, encResult, decResult, encTrace, decTrace>>
  /\ UNCHANGED <<driverVars, permVars, rotorVars, auxVars>>

\* one iteration of `for (const char of text)`
EncryptStep ==
  /\ pc = "enc" /\ idx < Len(text)
  /\ LET char == text[idx + 1] IN
       IF isValidCharacter(char)
       THEN LET r == encryptCharacter(char, activeRotors) IN
              IF r.err # "NONE"
              THEN /\ pc' = "failed"
                   /\ error' = Err(r.err, <<idx>>, <<>>)
                   /\ activeRotors' = r.rotors
                   /\ UNCHANGED <<result, warnings, encTrace>>
              ELSE /\ result' = Append(result, r.ch)
                   /\ activeRotors' = r.rotors
                   /\ encTrace' = Append(encTrace, Positions(activeRotors))
                   /\ UNCHANGED <<pc, error, warnings>>
       ELSE /\ warnings' = Append(warnings, char)
            /\ UNCHANGED <<pc, error, result, activeRotors, encTrace>>
  /\ idx' = idx + 1
  /\ UNCHANGED <<mode, text, config, ciphertext, encResult, decResult, decTrace>>
  /\ UNCHANGED <<driverVars, permVars, rotorVars, auxVars>>

EncryptReturn ==
  /\ pc = "enc" /\ idx = Len(text)
  /\ encResult' = [returned |-> TRUE, result |-> result,
                   finalPositions |-> Positions(activeRotors),
                   charactersProcessed |-> Len(text), warnings |-> warnings]
  /\ pc' = "encDone"
  /\ UNCHANGED <<mode, text, config, ciphertext, activeRotors, idx, result, warnings,
                 error, decResult, encTrace, decTrace>>
  /\ UNCHANGED <<driverVars, permVars, rotorVars, auxVars>>

(***************************************************************************)
(* decryptText: on the ciphertext of the round trip, or on the text itself *)
(***************************************************************************)
DecryptStart ==
  /\ \/ pc = "encDone" /\ ciphertext' = encResult.result
     \/ pc = "idle" /\ mode = "decrypt" /\ ciphertext' = text
  /\ LET p == Prepare(ciphertext', config, AvailableRotors) IN
       IF p.err.code # "NONE"
       THEN /\ pc' = "failed"
            /\ error' = p.err
            /\ activeRotors' = <<>>
       ELSE /\ pc' = "dec"
            /\ activeRotors' = p.rotors
            /\ UNCHANGED error
  /\ idx' = 0 /\ result' = <<>> /\ warnings' = <<>>
  /\ UNCHANGED <<mode, text, config, encResult, decResult, encTrace, decTrace>>
  /\ UNCHANGED <<driverVars, permVars, rotorVars, auxVars>>

DecryptStep ==
  /\ pc = "dec" /\ idx < Len(ciphertext)
  /\ LET char == ciphertext[idx + 1] IN
       IF isValidCharacter(char)
       THEN LET r == decryptCharacter(char, activeRotors) IN
              IF r.err # "NONE"
              THEN /\ pc' = "failed"
                   /\ error' = Err(r.err, <<idx>>, <<>>)
                   /\ activeRotors' = r.rotors
                   /\ UNCHANGED <<result, warnings, decTrace>>
              ELSE /\ result' = Append(result, r.ch)
                   /\ activeRotors' = r.rotors
                   /\ decTrace' = Append(decTrace, Positions(r.rotors))
                   /\ UNCHANGED <<pc, error, warnings>>
       ELSE /\ warnings' = Append(warnings, char)
            /\ UNCHANGED <<pc, error, result, activeRotors, decTrace>>
  /\ idx' = idx + 1
  /\ UNCHANGED <<mode, text, config, ciphertext, encResult, decResult, encTrace>>
  /\ UNCHANGED <<driverVars, permVars, rotorVars, auxVars>>

DecryptReturn ==
  /\ pc = "dec" /\ idx = Len(ciphertext)
  /\ decResult' = [returned |-> TRUE, result |-> result,
                   finalPositions |-> Positions(activeRotors),
                   charactersProcessed |-> Len(ciphertext), warnings |-> warnings]
  /\ pc' = "done"
  /\ UNCHANGED <<mode, text, config, ciphertext, activeRotors, idx, result, warnings,
                 error, encResult, encTrace, decTrace>>
  /\ UNCHANGED <<driverVars, permVars, rotorVars, auxVars>>

(***************************************************************************)
(* A caller that builds the rotors array itself (as the unit tests do) and *)
(* calls encryptCharacter / decryptCharacter once.                         *)
(***************************************************************************)
CharacterCall ==
  /\ pc = "idle" /\ mode \in {"encryptChar", "decryptChar"}
  /\ Len(config.startPositions) = Len(config.rotorIds)
  /\ \A k \in 1..Len(config.rotorIds) : config.rotorIds[k] \in DOMAIN AvailableRotors
  /\ LET built == CreateActiveRotors(config, AvailableRotors, 0, <<>>) IN
       IF built.err.code # "NONE"
       THEN /\ pc' = "failed"
            /\ error' = built.err
            /\ UNCHANGED <<activeRotors, result>>
       ELSE LET r == IF mode = "encryptChar"
                     THEN encryptCharacter(text[1], built.rotors)
                     ELSE decryptCharacter(text[1], built.rotors) IN
              /\ activeRotors' = r.rotors
              /\ IF r.err # "NONE"
                 THEN pc' = "failed" /\ error' = Err(r.err, <<>>, <<>>) /\ UNCHANGED result
                 ELSE pc' = "charDone" /\ result' = <<r.ch>> /\ UNCHANGED error
  /\ UNCHANGED <<mode, text, config, ciphertext, idx, warnings, encResult, decResult,
                 encTrace, decTrace>>
  /\ UNCHANGED <<driverVars, permVars, rotorVars, auxVars>>

NextCodec ==
  \/ CharacterCall
  \/ EncryptStart
  \/ EncryptStep
  \/ EncryptReturn
  \/ DecryptStart
  \/ DecryptStep
  \/ DecryptReturn

Next == NextCodec

Spec == Init /\ [][Next]_vars

(***************************************************************************)
(* The character driver: the body of the text loop for in-alphabet         *)
(* characters, run for as many characters as MaxSteps allows, so that the  *)
(* cascade reaches the third rotor (64 * 64 characters).                   *)
(***************************************************************************)
DriverChars == {"A", "k"}

DriverStacks ==
  { <<createActiveRotor(AvailableRotors["affine"], 1)>>,
    <<createActiveRotor(AvailableRotors["affine"], 64)>>,
    <<createActiveRotor(AvailableRotors["shift"], 1),
      createActiveRotor(AvailableRotors["affine"], 1)>>,
    <<createActiveRotor(AvailableRotors["shift"], 63),
      createActiveRotor(AvailableRotors["affine"], 32)>>,
    <<createActiveRotor(AvailableRotors["affine"], 1),
      createActiveRotor(AvailableRotors["shift"], 1),
      createActiveRotor(AvailableRotors["ident"], 1)>>,
    <<createActiveRotor(AvailableRotors["affine"], 64),
      createActiveRotor(AvailableRotors["shift"], 2),
      createActiveRotor(AvailableRotors["ident"], 33)>> }

InitDriver ==
  /\ CodecUnused /\ PermUnused /\ RotorUnused /\ AuxUnused
  /\ drvMode \in {"encrypt", "decrypt"}
  /\ drvRotors \in DriverStacks
  /\ drvCount = 0
  /\ drvLast = ""

\* result += encryptCharacter(char, activeRotors)
DriverEncrypt ==
  /\ drvMode = "encrypt" /\ drvCount < MaxSteps
  /\ \E char \in DriverChars :
       \E r \in {encryptCharacter(char, drvRotors)} :
         /\ r.err = "NONE"
         /\ drvRotors' = r.rotors
         /\ drvLast' = r.ch
  /\ drvCount' = drvCount + 1
  /\ UNCHANGED <<drvMode, codecVars, permVars, rotorVars, auxVars>>

\* result += decryptCharacter(char, activeRotors)
DriverDecrypt ==
  /\ drvMode = "decrypt" /\ drvCount < MaxSteps
  /\ \E char \in DriverChars :
       \E r \in {decryptCharacter(char, drvRotors)} :
         /\ r.err = "NONE"
         /\ drvRotors' = r.rotors
         /\ drvLast' = r.ch
  /\ drvCount' = drvCount + 1
  /\ UNCHANGED <<drvMode, codecVars, permVars, rotorVars, auxVars>>

NextDriver ==
  \/ DriverEncrypt
  \/ DriverDecrypt

SpecDriver == InitDriver /\ [][NextDriver]_vars

(***************************************************************************)
(* validateRotorPermutation on candidate permutations.                     *)
(***************************************************************************)
MutIdx == {0, 10, 37, 63}
MutVals == {-1, 0, 10, 37, 64, NonIntBase + 10}

\* a base permutation with the elements at the indices of m replaced
Mutated(base, m) ==
  [k \in 1..Len(base) |-> IF (k - 1) \in DOMAIN m THEN m[k - 1] ELSE base[k]]

Mutations ==
  UNION {[D -> MutVals] : D \in {D \in SUBSET MutIdx : Cardinality(D) <= MaxMut}}

Candidates ==
  {Mutated(base, m) : base \in {IdentityPermutation, AffinePermutation}, m \in Mutations}
  \cup {<<>>, <<0, 1, 2>>, SubSeq(IdentityPermutation, 1, 63),
        Append(IdentityPermutation, 0), Append(IdentityPermutation, 64),
        ShiftPermutation, SwapPermutation, ReversePermutation, DupPermutation,
        [k \in 1..64 |-> k]}

InitPerm ==
  /\ CodecUnused /\ DriverUnused /\ RotorUnused /\ AuxUnused
  /\ candidate \in Candidates
  /\ verdict = NoError
  /\ permPc = "new"

ValidatePermutation ==
  /\ permPc = "new"
  /\ verdict' = validateRotorPermutation(candidate)
  /\ permPc' = IF verdict'.code = "NONE" THEN "accepted" ELSE "rejected"
  /\ UNCHANGED <<candidate, codecVars, driverVars, rotorVars, auxVars>>

NextPerm == ValidatePermutation

SpecPerm == InitPerm /\ [][NextPerm]_vars

(***************************************************************************)
(* The single-rotor transform: forward, then inverse at the same position. *)
(***************************************************************************)
Definitions ==
  {createTestRotor, createIdentityRotor,
   RotorConfigOf("affine", AffinePermutation),
   RotorConfigOf("swap", SwapPermutation),
   RotorConfigOf("reverse", ReversePermutation)}

InitRotor ==
  /\ CodecUnused /\ DriverUnused /\ PermUnused /\ AuxUnused
  /\ trRotor \in {createActiveRotor(d, p) :
                    d \in {d \in Definitions : validateRotorConfig(d).code = "NONE"},
                    p \in ROTOR_POSITION_MIN..ROTOR_POSITION_MAX}
  /\ trChar \in {CHARSET[k] : k \in 1..Len(CHARSET)}
  /\ trEnc = Returned("")
  /\ trDec = Returned("")
  /\ trPc = "start"

ThroughEncrypt ==
  /\ trPc = "start"
  /\ trEnc' = encryptCharacterThroughRotor(trChar, trRotor)
  /\ trPc' = "encrypted"
  /\ UNCHANGED <<trRotor, trChar, trDec, codecVars, driverVars, permVars, auxVars>>

ThroughDecrypt ==
  /\ trPc = "encrypted" /\ trEnc.err = "NONE"
  /\ trDec' = decryptCharacterThroughRotor(trEnc.ch, trRotor)
  /\ trPc' = "decrypted"
  /\ UNCHANGED <<trRotor, trChar, trEnc, codecVars, driverVars, permVars, auxVars>>

NextRotor ==
  \/ ThroughEncrypt
  \/ ThroughDecrypt

SpecRotor == InitRotor /\ [][NextRotor]_vars

(***************************************************************************)
(* validateEncryptionConfig on candidate configurations.                   *)
(***************************************************************************)
MaxIds == 9          \* candidate configurations list up to this many rotor ids

CoreUnused == CodecUnused /\ DriverUnused /\ PermUnused /\ RotorUnused

IdPool == <<"r1", "r2", "r3", "r4", "r5", "r6", "r7", "r8", "r9", "r10", "r11">>

\* n ids: all distinct (d = 0), or the id at 0-based index d - 1 written again
\* at the end of the list
IdLists ==
  {SubSeq(IdPool, 1, n) : n \in 0..MaxIds}
  \cup UNION {{Append(SubSeq(IdPool, 1, n - 1), IdPool[d]) : d \in {1, n - 1}} :
                n \in 2..MaxIds}

PositionValues == {0, 1, 64, 65, NonIntBase + 5}

\* m start positions, all 32 or with one of them replaced
PositionLists(m) ==
  {[k \in 1..m |-> 32]}
  \cup {[k \in 1..m |-> IF k = at THEN v ELSE 32] : at \in {1, m} \cap 1..m, v \in PositionValues}

ConfigCandidates ==
  {[rotorIds |-> ids, startPositions |-> ps] :
     ids \in IdLists,
     ps \in UNION {PositionLists(m) : m \in 0..(MaxIds + 1)}}

InitConfig ==
  /\ CoreUnused /\ PairUnused /\ StepUnused /\ SymbolUnused /\ GenUnused /\ StoreUnused
  /\ ProcessorUnused
  /\ cfgCandidate \in {c \in ConfigCandidates :
                         Len(c.startPositions) - Len(c.rotorIds) \in {-1, 0, 1}}
  /\ cfgVerdict = NoError
  /\ cfgPc = "new"

ValidateConfig ==
  /\ cfgPc = "new"
  /\ cfgVerdict' = validateEncryptionConfig(cfgCandidate)
  /\ cfgPc' = IF cfgVerdict'.code = "NONE" THEN "accepted" ELSE "rejected"
  /\ UNCHANGED <<cfgCandidate, codecVars, driverVars, permVars, rotorVars,
                 pairVars, stepVars, symbolVars, genVars, storeVars,
                 processorVars>>

NextConfig == ValidateConfig

SpecConfig == InitConfig /\ [][NextConfig]_vars

(***************************************************************************)
(* Two encryptText / decryptText calls whose character steps interleave.   *)
(* Each call has its own locals (activeRotors, result, warnings); both     *)
(* were given the same Map of rotor definitions.                           *)
(***************************************************************************)
PairLen == 2         \* the two calls' texts have up to this many characters

\* the first n characters of "LWhs3..." (every 11th character of the alphabet)
PairText(n) == [k \in 1..n |-> CHARSET[((11 * k) % 64) + 1]]
PairTexts == {PairText(n) : n \in 0..PairLen}

PairConfigs ==
  {[rotorIds |-> <<"affine">>, startPositions |-> <<64>>],
   [rotorIds |-> <<"shift", "affine">>, startPositions |-> <<1, 64>>],
   [rotorIds |-> <<"affine", "shift">>, startPositions |-> <<64, 64>>]}

NewCall(kind, t, c) ==
  [kind |-> kind, text |-> t, config |-> c, pc |-> "new", activeRotors |-> <<>>,
   idx |-> 0, result |-> <<>>, warnings |-> <<>>, error |-> NoError, ret |-> NoResult]

\* encryptCharacter / decryptCharacter assign rotors[i] in place: the array
\* they were handed is the `const activeRotors` of the call that is running
WriteBackShared(cs, c, rotors) ==
  [k \in 1..Len(cs) |-> [cs[k] EXCEPT !.activeRotors = rotors]]

WriteBack(cs, c, rotors) == [cs EXCEPT ![c].activeRotors = rotors]

InitPair ==
  /\ CoreUnused /\ ConfigUnused /\ StepUnused /\ SymbolUnused /\ GenUnused /\ StoreUnused
  /\ ProcessorUnused
  /\ lookup = AvailableRotors
  /\ overlap = FALSE
  /\ calls \in {<<NewCall(k1, t1, c1), NewCall(k2, t2, c2)>> :
                  k1 \in {"encrypt", "decrypt"}, k2 \in {"encrypt", "decrypt"},
                  t1 \in PairTexts, t2 \in PairTexts,
                  c1 \in PairConfigs, c2 \in PairConfigs}

PairRest == <<codecVars, driverVars, permVars, rotorVars,
              configVars, stepVars, symbolVars, genVars, storeVars,
                 processorVars>>

\* a call that takes over the rotors another call has left behind, as a
\* module-level cache of active rotors would
PairStartCached(c) ==
  /\ calls[c].pc = "new"
  /\ LET p == Prepare(calls[c].text, calls[c].config, lookup)
         left == {o \in 1..Len(calls) : o # c /\ calls[o].pc # "new"
                                        /\ calls[o].config = calls[c].config} IN
       IF p.err.code # "NONE"
       THEN calls' = [calls EXCEPT ![c].pc = "threw", ![c].error = p.err]
       ELSE IF left # {}
       THEN calls' = [WriteBack(calls, c, calls[CHOOSE o \in left : TRUE].activeRotors)
                        EXCEPT ![c].pc = "loop"]
       ELSE calls' = [WriteBack(calls, c, p.rotors) EXCEPT ![c].pc = "loop"]
  /\ UNCHANGED <<lookup, overlap, PairRest>>

\* a call up to its character loop
PairStart(c) ==
  /\ calls[c].pc = "new"
  /\ LET p == Prepare(calls[c].text, calls[c].config, lookup) IN
       IF p.err.code # "NONE"
       THEN calls' = [calls EXCEPT ![c].pc = "threw", ![c].error = p.err]
       ELSE calls' = [WriteBack(calls, c, p.rotors) EXCEPT ![c].pc = "loop"]
  /\ UNCHANGED <<lookup, overlap, PairRest>>

\* one iteration of a call's `for (const char of text)`
PairStep(c) ==
  /\ calls[c].pc = "loop" /\ calls[c].idx < Len(calls[c].text)
  /\ LET char == calls[c].text[calls[c].idx + 1] IN
       IF isValidCharacter(char)
       THEN LET r == IF calls[c].kind = "encrypt"
                     THEN encryptCharacter(char, calls[c].activeRotors)
                     ELSE decryptCharacter(char, calls[c].activeRotors) IN
              IF r.err # "NONE"
              THEN calls' = [WriteBack(calls, c, r.rotors) EXCEPT
                               ![c].pc = "threw", ![c].error = Err(r.err, <<calls[c].idx>>, <<>>),
                               ![c].idx = @ + 1]
              ELSE calls' = [WriteBack(calls, c, r.rotors) EXCEPT
                               ![c].result = Append(@, r.ch), ![c].idx = @ + 1]
       ELSE calls' = [calls EXCEPT ![c].warnings = Append(@, char), ![c].idx = @ + 1]
  /\ overlap' = (overlap \/ \E o \in 1..Len(calls) :
                    o # c /\ calls[o].pc = "loop" /\ calls[o].idx > 0
                          /\ calls[o].idx < Len(calls[o].text))
  /\ UNCHANGED <<lookup, PairRest>>

PairReturn(c) ==
  /\ calls[c].pc = "loop" /\ calls[c].idx = Len(calls[c].text)
  /\ calls' = [calls EXCEPT
       ![c].pc = "returned",
       ![c].ret = [returned |-> TRUE, result |-> calls[c].result,
                   finalPositions |-> Positions(calls[c].activeRotors),
                   charactersProcessed |-> Len(calls[c].text),
                   warnings |-> calls[c].warnings]]
  /\ UNCHANGED <<lookup, overlap, PairRest>>

NextPair == \E c \in 1..2 : PairStart(c) \/ PairStep(c) \/ PairReturn(c)

SpecPair == InitPair /\ [][NextPair]_vars

\* the character loop of one call run from character i to the end of the text
RECURSIVE RunLoop(_, _, _, _, _, _)
RunLoop(kind, t, rotors, i, acc, w) ==
  IF i >= Len(t)
  THEN [err |-> NoError, result |-> acc, rotors |-> rotors, warnings |-> w]
  ELSE IF ~isValidCharacter(t[i + 1])
  THEN RunLoop(kind, t, rotors, i + 1, acc, Append(w, t[i + 1]))
  ELSE LET r == IF kind = "encrypt" THEN encryptCharacter(t[i + 1], rotors)
                ELSE decryptCharacter(t[i + 1], rotors) IN
    IF r.err # "NONE"
    THEN [err |-> Err(r.err, <<i>>, <<>>), result |-> acc, rotors |-> r.rotors, warnings |-> w]
    ELSE RunLoop(kind, t, r.rotors, i + 1, Append(acc, r.ch), w)

\* encryptText / decryptText called on their own
RunAlone(kind, t, c, availableRotors) ==
  LET p == Prepare(t, c, availableRotors) IN
  IF p.err.code # "NONE" THEN [error |-> p.err, ret |-> NoResult]
  ELSE LET l == RunLoop(kind, t, p.rotors, 0, <<>>, <<>>) IN
    IF l.err.code # "NONE" THEN [error |-> l.err, ret |-> NoResult]
    ELSE [error |-> NoError,
          ret |-> [returned |-> TRUE, result |-> l.result,
                   finalPositions |-> Positions(l.rotors),
                   charactersProcessed |-> Len(t),
                   warnings |-> l.warnings]]

(***************************************************************************)
(* stepRotor called on one rotor.                                          *)
(***************************************************************************)
StepCounts == {0, 1, 63, 64, 127, 128}

InitStep ==
  /\ CoreUnused /\ ConfigUnused /\ PairUnused /\ SymbolUnused /\ GenUnused /\ StoreUnused
  /\ ProcessorUnused
  /\ stIn \in {[createActiveRotor(d, p) EXCEPT !.stepCount = n] :
                  d \in {createTestRotor, RotorConfigOf("affine", AffinePermutation)},
                  p \in ROTOR_POSITION_MIN..ROTOR_POSITION_MAX,
                  n \in StepCounts}
  /\ stOut = <<>>
  /\ stPc = "start"

\* const stepped = stepRotor(rotor): the argument is only read
StepCall ==
  /\ stPc = "start"
  /\ stOut' = stepRotor(stIn)
  /\ stPc' = "stepped"
  /\ UNCHANGED <<stIn, codecVars, driverVars, permVars, rotorVars,
                 configVars, pairVars, symbolVars, genVars, storeVars,
                 processorVars>>

NextStep == StepCall

SpecStep == InitStep /\ [][NextStep]_vars

(***************************************************************************)
(* charToIndex and indexToChar applied one after the other.                *)
(***************************************************************************)
SymbolChars == {CHARSET[k] : k \in 1..Len(CHARSET)} \cup {"!", "-", "_"}
SymbolIndices == (0 - 2)..(Len(CHARSET) + 1)

InitSymbol ==
  /\ CoreUnused /\ ConfigUnused /\ PairUnused /\ StepUnused /\ GenUnused /\ StoreUnused
  /\ ProcessorUnused
  /\ \/ cdPc = "char" /\ cdIn \in SymbolChars /\ cdMid = 0 /\ cdOut = ""
     \/ cdPc = "index" /\ cdIn \in SymbolIndices /\ cdMid = "" /\ cdOut = 0

SymbolRest == <<codecVars, driverVars, permVars, rotorVars,
                configVars, pairVars, stepVars, genVars, storeVars,
                 processorVars>>

\* charToIndex(c): throws when CHARSET.indexOf(c) is -1
CharToIndexCall ==
  /\ cdPc = "char"
  /\ cdMid' = charToIndex(cdIn)
  /\ cdPc' = IF cdMid' = -1 THEN "charThrew" ELSE "gotIndex"
  /\ UNCHANGED <<cdIn, cdOut, SymbolRest>>

\* indexToChar(charToIndex(c))
IndexToCharBack ==
  /\ cdPc = "gotIndex"
  /\ IF cdMid < 0 \/ cdMid >= Len(CHARSET)
     THEN cdPc' = "backThrew" /\ UNCHANGED cdOut
     ELSE cdPc' = "charBack" /\ cdOut' = indexToChar(cdMid)
  /\ UNCHANGED <<cdIn, cdMid, SymbolRest>>

\* indexToChar(i): throws when i < 0 or i >= CHARSET.length
IndexToCharCall ==
  /\ cdPc = "index"
  /\ IF cdIn < 0 \/ cdIn >= Len(CHARSET)
     THEN cdPc' = "indexThrew" /\ UNCHANGED cdMid
     ELSE cdPc' = "gotChar" /\ cdMid' = indexToChar(cdIn)
  /\ UNCHANGED <<cdIn, cdOut, SymbolRest>>

\* charToIndex(indexToChar(i))
CharToIndexBack ==
  /\ cdPc = "gotChar"
  /\ cdOut' = charToIndex(cdMid)
  /\ cdPc' = IF cdOut' = -1 THEN "backThrew" ELSE "indexBack"
  /\ UNCHANGED <<cdIn, cdMid, SymbolRest>>

NextSymbol ==
  \/ CharToIndexCall
  \/ IndexToCharBack
  \/ IndexToCharCall
  \/ CharToIndexBack

SpecSymbol == InitSymbol /\ [][NextSymbol]_vars

(***************************************************************************)
(* The generation utilities: generateRandomPermutation, createTestRotor    *)
(* and createIdentityRotor.                                                *)
(***************************************************************************)
GenSeeds == 8        \* this many pseudo-random streams of draws, besides the extreme ones

\* the array assigning permutation[i] without assigning permutation[j]
SwapOverwrite(perm, i, j) == [perm EXCEPT ![i + 1] = perm[j + 1]]

\* [permutation[i], permutation[j]] = [permutation[j], permutation[i]]
Swap(perm, i, j) == [perm EXCEPT ![i + 1] = perm[j + 1], ![j + 1] = perm[i + 1]]

\* createCustomRotor: validateRotorPermutation, then the new definition
createCustomRotor(name, permutation) ==
  [err |-> validateRotorPermutation(permutation),
   config |-> RotorConfigOf(name, permutation)]

\* what crypto.getRandomValues delivers in the 63 iterations (the draw of
\* iteration i is at i): unsigned integers
RandomStreams ==
  {[i \in 1..63 |-> 0], [i \in 1..63 |-> 2147483647], [i \in 1..63 |-> i],
   [i \in 1..63 |-> i - 1], [i \in 1..63 |-> i + 1]}
  \cup {[i \in 1..63 |-> (7919 * seed + 104729 * i + seed * i * i) % 65536] :
          seed \in 1..GenSeeds}

InitGen ==
  /\ CoreUnused /\ ConfigUnused /\ PairUnused /\ StepUnused /\ SymbolUnused /\ StoreUnused
  /\ ProcessorUnused
  /\ \/ genKind = "random" /\ genRandom \in RandomStreams
     \/ genKind \in {"test", "identity"} /\ genRandom = <<>>
  /\ genPerm = <<>>
  /\ genI = 0
  /\ genErr = NoError
  /\ genPc = "start"

GenRest == <<codecVars, driverVars, permVars, rotorVars,
             configVars, pairVars, stepVars, symbolVars, storeVars,
                 processorVars>>

\* const permutation = Array.from({ length: 64 }, (_, i) => i); i = 63
GenStart ==
  /\ genPc = "start" /\ genKind = "random"
  /\ genPerm' = [k \in 1..64 |-> k - 1]
  /\ genI' = 64 - 1
  /\ genPc' = "shuffling"
  /\ UNCHANGED <<genKind, genRandom, genErr, GenRest>>

\* one iteration of the Fisher-Yates loop
GenShuffle ==
  /\ genPc = "shuffling" /\ genI > 0
  /\ LET j == genRandom[genI] % (genI + 1) IN
       genPerm' = Swap(genPerm, genI, j)
  /\ genI' = genI - 1
  /\ UNCHANGED <<genKind, genRandom, genErr, genPc, GenRest>>

\* validateRotorPermutation(permutation); return Object.freeze(permutation)
GenValidate ==
  /\ genPc = "shuffling" /\ genI = 0
  /\ genErr' = validateRotorPermutation(genPerm)
  /\ genPc' = IF genErr'.code = "NONE" THEN "done" ELSE "failed"
  /\ UNCHANGED <<genKind, genRandom, genPerm, genI, GenRest>>

\* createTestRotor / createIdentityRotor
GenCreate ==
  /\ genPc = "start" /\ genKind \in {"test", "identity"}
  /\ LET made == IF genKind = "test"
                 THEN createCustomRotor("shift", ShiftPermutation)
                 ELSE createCustomRotor("ident", IdentityPermutation) IN
       /\ genErr' = made.err
       /\ genPerm' = made.config.permutation
       /\ genPc' = IF made.err.code = "NONE" THEN "done" ELSE "failed"
  /\ UNCHANGED <<genKind, genRandom, genI, GenRest>>

NextGen ==
  \/ GenStart
  \/ GenShuffle
  \/ GenValidate
  \/ GenCreate

SpecGen == InitGen /\ [][NextGen]_vars

(***************************************************************************)
(* encryptText / decryptText on the worked examples: shift and identity    *)
(* rotors, "Hello World.", "ABC", single characters, the empty text.       *)
(***************************************************************************)
KnownRotors == 2     \* the shift / identity configurations have up to this many rotors

HelloWorld == <<"H", "e", "l", "l", "o", " ", "W", "o", "r", "l", "d", ".">>
ABC == <<"A", "B", "C">>

ShiftIdentIds == {"shift", "shift2", "ident", "ident2"}
KnownPositions == {1, 32, 64}

Distinct(ids) == \A k, l \in 1..Len(ids) : k # l => ids[k] # ids[l]

\* every configuration of 1..KnownRotors different shift / identity rotors
ShiftIdentConfigs ==
  UNION {{[rotorIds |-> ids, startPositions |-> ps] :
            ids \in {q \in [1..n -> ShiftIdentIds] : Distinct(q)},
            ps \in [1..n -> KnownPositions]} : n \in 1..KnownRotors}

\* one rotor at every start position
SingleRotorConfigs ==
  {[rotorIds |-> <<id>>, startPositions |-> <<s>>] :
     id \in {"shift", "ident", "affine"},
     s \in ROTOR_POSITION_MIN..ROTOR_POSITION_MAX}

ShiftAtOne == [rotorIds |-> <<"shift">>, startPositions |-> <<1>>]

KnownCases ==
  {[mode |-> "roundtrip", text |-> t, config |-> c] :
     t \in {<<>>, HelloWorld}, c \in ShiftIdentConfigs}
  \cup {[mode |-> "roundtrip", text |-> LongText, config |-> c] :
          c \in {d \in ShiftIdentConfigs :
                   \A k \in 1..Len(d.startPositions) : d.startPositions[k] = 64}}
  \cup {[mode |-> "roundtrip", text |-> t, config |-> c] :
          t \in {<<>>, ABC, HelloWorld}, c \in SingleRotorConfigs}
  \cup {[mode |-> m, text |-> <<CHARSET[k]>>, config |-> ShiftAtOne] :
          m \in Modes, k \in 1..Len(CHARSET)}

InitKnown ==
  /\ DriverUnused /\ PermUnused /\ RotorUnused /\ AuxUnused
  /\ pc = "idle"
  /\ \E k \in KnownCases : mode = k.mode /\ text = k.text /\ config = k.config
  /\ ciphertext = <<>>
  /\ activeRotors = <<>>
  /\ idx = 0
  /\ result = <<>>
  /\ warnings = <<>>
  /\ error = NoError
  /\ encResult = NoResult
  /\ decResult = NoResult
  /\ encTrace = <<>>
  /\ decTrace = <<>>

SpecKnown == InitKnown /\ [][Next]_vars

(***************************************************************************)
(* The identity rotor: encryptCharacterThroughRotor on its own, and        *)
(* encryptText of "A" with the identity rotor at position 1.               *)
(***************************************************************************)
IdentAtOne == [rotorIds |-> <<"ident">>, startPositions |-> <<1>>]

InitPlain ==
  /\ DriverUnused /\ PermUnused /\ RotorUnused /\ AuxUnused
  /\ pc = "idle"
  /\ mode \in Modes
  /\ text = <<"A">>
  /\ config = IdentAtOne
  /\ ciphertext = <<>>
  /\ activeRotors = <<>>
  /\ idx = 0
  /\ result = <<>>
  /\ warnings = <<>>
  /\ error = NoError
  /\ encResult = NoResult
  /\ decResult = NoResult
  /\ encTrace = <<>>
  /\ decTrace = <<>>

InitIdentity == InitRotor \/ InitPlain

NextIdentity == NextRotor \/ NextCodec

SpecIdentity == InitIdentity /\ [][NextIdentity]_vars

(***************************************************************************)
(* The single-rotor transform on every validated definition, position and  *)
(* character, beside the text codec on every configuration and text.       *)
(***************************************************************************)
InitLoop == InitRotor \/ Init

NextLoop == NextRotor \/ NextCodec

SpecLoop == InitLoop /\ [][NextLoop]_vars

(***************************************************************************)
(* Two encryptText calls with one configuration on a pair of plaintexts.   *)
(***************************************************************************)
TwinChars == {"A", "a"}
TwinTexts == SeqsUpTo(TwinChars, TwinLen)
\* two plaintexts of one length
TwinPairs == {p \in TwinTexts \X TwinTexts : Len(p[1]) = Len(p[2])}

InitTwin ==
  /\ CoreUnused /\ ConfigUnused /\ StepUnused /\ SymbolUnused /\ GenUnused /\ StoreUnused
  /\ ProcessorUnused
  /\ lookup = AvailableRotors
  /\ overlap = FALSE
  /\ calls \in {<<NewCall("encrypt", p[1], c), NewCall("encrypt", p[2], c)>> :
                  p \in TwinPairs, c \in PairConfigs}

SpecTwin == InitTwin /\ [][NextPair]_vars

(***************************************************************************)
(* Rotor storage (lib/storage/rotors.ts over lib/storage/localStorage.ts). *)
(* The localStorage item is modelled parsed: JSON.parse(JSON.stringify(x)) *)
(* returns these records as they are.  A Date is modelled by its validity  *)
(* (TRUE for a valid Date), an ISO date string by the string itself.       *)
(***************************************************************************)
MAX_STORED_ROTORS == 10
STORAGE_VERSION == 1

EmptyMap == [k \in {} |-> 0]
MapSet(m, k, v) == [x \in DOMAIN m \cup {k} |-> IF x = k THEN v ELSE m[x]]
MapDelete(m, k) == [x \in DOMAIN m \ {k} |-> m[x]]
MapSize(m) == Cardinality(DOMAIN m)

\* localStorage.getItem(STORAGE_KEYS.ROTORS) === null
NoItem == [present |-> FALSE, version |-> 0, rotors |-> EmptyMap, totalRotors |-> 0]

\* Date.prototype.toISOString: throws a RangeError on an invalid Date
toISOString(date) == IF date THEN "2024-01-01T00:00:00.000Z" ELSE "RangeError"

\* new Date(string): a valid Date exactly for a parseable string
NewDate(str) == str = "2024-01-01T00:00:00.000Z"

\* the stored form that forgets when the rotor was updated
rotorConfigToStoredStale(rotorConfig) ==
  [id |-> rotorConfig.id, name |-> rotorConfig.name, permutation |-> rotorConfig.permutation,
   createdAt |-> toISOString(rotorConfig.createdAt),
   updatedAt |-> "never"]

rotorConfigToStored(rotorConfig) ==
  [id |-> rotorConfig.id, name |-> rotorConfig.name, permutation |-> rotorConfig.permutation,
   createdAt |-> toISOString(rotorConfig.createdAt),
   updatedAt |-> toISOString(rotorConfig.updatedAt)]

\* rotorConfigToStored throws (toISOString on an invalid Date)
ToStoredThrows(rotorConfig) == ~rotorConfig.createdAt \/ ~rotorConfig.updatedAt

storedToRotorConfig(stored) ==
  [id |-> stored.id, name |-> stored.name, permutation |-> stored.permutation,
   createdAt |-> NewDate(stored.createdAt),
   updatedAt |-> NewDate(stored.updatedAt)]

Ok(item) == [success |-> TRUE, error |-> "", item |-> item]
Fail(e, item) == [success |-> FALSE, error |-> e, item |-> item]

StoreIds == 11       \* rotor ids the callers use

StoreIdPool ==
  <<"s1", "s2", "s3", "s4", "s5", "s6", "s7", "s8", "s9", "s10", "s11", "s12", "s13">>

StoreRotor(id, name, permutation, updatedAt) ==
  [id |-> id, name |-> name, permutation |-> permutation,
   createdAt |-> TRUE, updatedAt |-> updatedAt]

RotorA(id) == StoreRotor(id, "first", ShiftPermutation, TRUE)
RotorB(id) == StoreRotor(id, "second", AffinePermutation, TRUE)
\* rotors validateRotorConfig rejects: a repeated value, an invalid Date
BadPermRotor == StoreRotor("s3", "broken", DupPermutation, TRUE)
BadDateRotor == StoreRotor("s4", "undated", ShiftPermutation, FALSE)

\* loadRotors: a stored rotor that fails validation is left out with a warning
loadRotors(item) ==
  IF ~item.present
  THEN [success |-> TRUE, error |-> "", data |-> EmptyMap]
  ELSE LET good == {id \in DOMAIN item.rotors :
                      validateRotorConfig(storedToRotorConfig(item.rotors[id])).code = "NONE"} IN
    [success |-> TRUE, error |-> "",
     data |-> [id \in good |-> storedToRotorConfig(item.rotors[id])]]

\* saveRotors accepting one rotor more than the limit
saveRotorsOffByOne(item, rotors, canStore) ==
  IF MapSize(rotors) > MAX_STORED_ROTORS + 1
  THEN Fail("Cannot store more than 10 rotors", item)
  ELSE IF ~canStore
  THEN Fail("Storage quota exceeded", item)
  ELSE IF \E id \in DOMAIN rotors : ToStoredThrows(rotors[id])
  THEN Fail("Invalid time value", item)
  ELSE Ok([present |-> TRUE, version |-> STORAGE_VERSION,
           rotors |-> [id \in DOMAIN rotors |-> rotorConfigToStored(rotors[id])],
           totalRotors |-> MapSize(rotors)])

\* canStore: what getStorageQuota finds (it depends on every localStorage key)
saveRotors(item, rotors, canStore) ==
  IF MapSize(rotors) > MAX_STORED_ROTORS
  THEN Fail("Cannot store more than 10 rotors", item)
  ELSE IF ~canStore
  THEN Fail("Storage quota exceeded", item)
  ELSE IF \E id \in DOMAIN rotors : ToStoredThrows(rotors[id])
  THEN Fail("Invalid time value", item)
  ELSE Ok([present |-> TRUE, version |-> STORAGE_VERSION,
           rotors |-> [id \in DOMAIN rotors |-> rotorConfigToStored(rotors[id])],
           totalRotors |-> MapSize(rotors)])

\* addRotor that replaces a rotor already stored under the id
addRotorReplacing(item, rotorConfig, canStore) ==
  IF validateRotorConfig(rotorConfig).code # "NONE"
  THEN Fail(validateRotorConfig(rotorConfig).code, item)
  ELSE LET rotors == loadRotors(item).data IN
    IF rotorConfig.id \notin DOMAIN rotors /\ MapSize(rotors) >= MAX_STORED_ROTORS
    THEN Fail("Cannot store more than 10 rotors", item)
    ELSE saveRotors(item, MapSet(rotors, rotorConfig.id, rotorConfig), canStore)

addRotor(item, rotorConfig, canStore) ==
  IF validateRotorConfig(rotorConfig).code # "NONE"
  THEN Fail(validateRotorConfig(rotorConfig).code, item)
  ELSE LET rotors == loadRotors(item).data IN
    IF rotorConfig.id \in DOMAIN rotors
    THEN Fail("already exists", item)
    ELSE IF MapSize(rotors) >= MAX_STORED_ROTORS
    THEN Fail("Cannot store more than 10 rotors", item)
    ELSE saveRotors(item, MapSet(rotors, rotorConfig.id, rotorConfig), canStore)

updateRotor(item, rotorConfig, canStore) ==
  IF validateRotorConfig(rotorConfig).code # "NONE"
  THEN Fail(validateRotorConfig(rotorConfig).code, item)
  ELSE LET rotors == loadRotors(item).data IN
    IF rotorConfig.id \notin DOMAIN rotors
    THEN Fail("does not exist", item)
    ELSE saveRotors(item, MapSet(rotors, rotorConfig.id, rotorConfig), canStore)

removeRotor(item, rotorId, canStore) ==
  LET rotors == loadRotors(item).data IN
    IF rotorId \notin DOMAIN rotors
    THEN Fail("does not exist", item)
    ELSE saveRotors(item, MapDelete(rotors, rotorId), canStore)

getRotor(item, rotorId) ==
  LET rotors == loadRotors(item).data IN
    IF rotorId \notin DOMAIN rotors
    THEN [success |-> FALSE, error |-> "not found", data |-> RotorA("")]
    ELSE [success |-> TRUE, error |-> "", data |-> rotors[rotorId]]

\* removeStorageItem(STORAGE_KEYS.ROTORS)
clearAllRotors(item) == Ok(NoItem)

\* validateImportData: no errors exactly when every rotor has an id, a name,
\* 64 permutation elements and passes validateRotorConfig
validateImportData(importData) ==
  LET fine == {i \in 1..Len(importData.rotors) :
                 LET rotor == importData.rotors[i] IN
                   /\ rotor.id # "" /\ rotor.name # ""
                   /\ Len(rotor.permutation) = 64
                   /\ validateRotorConfig(storedToRotorConfig(rotor)).code = "NONE"} IN
  [valid |-> Cardinality(fine) = Len(importData.rotors),
   rotorCount |-> Cardinality(fine)]

\* the loop of importRotors that keeps the stored rotor whatever the flag says
RECURSIVE ImportLoopKeeping(_, _, _, _)
ImportLoopKeeping(importData, overwriteExisting, i, acc) ==
  IF i > Len(importData.rotors) THEN acc
  ELSE LET rotorConfig == storedToRotorConfig(importData.rotors[i]) IN
    IF rotorConfig.id \in DOMAIN acc.rotors
    THEN ImportLoopKeeping(importData, overwriteExisting, i + 1,
                           [acc EXCEPT !.skipped = @ + 1])
    ELSE IF MapSize(acc.rotors) >= MAX_STORED_ROTORS
    THEN ImportLoopKeeping(importData, overwriteExisting, i + 1,
                           [acc EXCEPT !.errors = @ + 1])
    ELSE ImportLoopKeeping(importData, overwriteExisting, i + 1,
           [acc EXCEPT !.rotors = MapSet(@, rotorConfig.id, rotorConfig),
                       !.imported = @ + 1])

\* for (const storedRotor of importData.rotors): acc holds existingRotors,
\* imported, skipped and the number of errors
RECURSIVE ImportLoop(_, _, _, _)
ImportLoop(importData, overwriteExisting, i, acc) ==
  IF i > Len(importData.rotors) THEN acc
  ELSE LET rotorConfig == storedToRotorConfig(importData.rotors[i]) IN
    IF rotorConfig.id \in DOMAIN acc.rotors
    THEN IF overwriteExisting
         THEN ImportLoop(importData, overwriteExisting, i + 1,
                [acc EXCEPT !.rotors = MapSet(@, rotorConfig.id, rotorConfig),
                            !.imported = @ + 1])
         ELSE ImportLoop(importData, overwriteExisting, i + 1,
                [acc EXCEPT !.skipped = @ + 1])
    ELSE IF MapSize(acc.rotors) >= MAX_STORED_ROTORS
    THEN ImportLoop(importData, overwriteExisting, i + 1, [acc EXCEPT !.errors = @ + 1])
    ELSE ImportLoop(importData, overwriteExisting, i + 1,
           [acc EXCEPT !.rotors = MapSet(@, rotorConfig.id, rotorConfig),
                       !.imported = @ + 1])

NoImport == [imported |-> 0, skipped |-> 0, errors |-> 0]

importRotors(item, importData, overwriteExisting, canStore) ==
  IF ~validateImportData(importData).valid
  THEN [success |-> FALSE, error |-> "Import validation failed", item |-> item,
        data |-> NoImport]
  ELSE LET done == ImportLoop(importData, overwriteExisting, 1,
                              [rotors |-> loadRotors(item).data,
                               imported |-> 0, skipped |-> 0, errors |-> 0])
           saveResult == saveRotors(item, done.rotors, canStore) IN
    IF done.imported > 0 /\ ~saveResult.success
    THEN [success |-> FALSE, error |-> saveResult.error, item |-> item, data |-> NoImport]
    ELSE [success |-> TRUE, error |-> "",
          item |-> IF done.imported > 0 THEN saveResult.item ELSE item,
          data |-> [imported |-> done.imported, skipped |-> done.skipped,
                    errors |-> done.errors]]

(* The callers of the storage functions. *)
ActiveIds == {StoreIdPool[1], StoreIdPool[StoreIds]}

\* rotors handed to addRotor / updateRotor
SentRotors ==
  {RotorA(id) : id \in ActiveIds}
  \cup {RotorB(StoreIdPool[1]), BadDateRotor}

\* the first n ids, each with its first rotor
FirstRotors(n) == [id \in {StoreIdPool[k] : k \in 1..n} |-> RotorA(id)]

\* maps handed to saveRotors: up to one more than the limit, and maps holding
\* a rotor validateRotorConfig rejects
SavedMaps ==
  {FirstRotors(n) : n \in {MAX_STORED_ROTORS - 1, MAX_STORED_ROTORS,
                         MAX_STORED_ROTORS + 1, StoreIds}}
  \cup {MapSet(FirstRotors(1), BadPermRotor.id, BadPermRotor),
        MapSet(FirstRotors(1), BadDateRotor.id, BadDateRotor)}

ExportOf(rotorList) ==
  [version |-> STORAGE_VERSION,
   rotors |-> [k \in 1..Len(rotorList) |-> rotorConfigToStored(rotorList[k])]]

ImportFiles ==
  {ExportOf(<<RotorB(StoreIdPool[1]), RotorA(StoreIdPool[StoreIds])>>),
   ExportOf(<<RotorA(StoreIdPool[StoreIds - 1]), RotorA(StoreIdPool[StoreIds])>>),
   ExportOf(<<RotorA(StoreIdPool[1]), BadPermRotor>>)}

NoCall ==
  [op |-> "none", id |-> "", sent |-> RotorA(""), imports |-> <<>>, overwrite |-> FALSE,
   size |-> 0, success |-> TRUE, error |-> "", before |-> NoItem,
   data |-> NoImport, got |-> RotorA("")]

NothingKnown == [tracked |-> TRUE, rotors |-> EmptyMap]

InitStore ==
  /\ CoreUnused /\ ConfigUnused /\ PairUnused /\ StepUnused /\ SymbolUnused /\ GenUnused
  /\ ProcessorUnused
  /\ lsRotors = NoItem
  /\ lastCall = NoCall
  /\ known = NothingKnown

StoreRest == <<codecVars, driverVars, permVars, rotorVars,
               configVars, pairVars, stepVars, symbolVars, genVars, processorVars>>

\* what a call leaves behind: the item it wrote and the record of the call
Returns(call, r) ==
  /\ lsRotors' = r.item
  /\ lastCall' = [call EXCEPT !.success = r.success, !.error = r.error,
                              !.before = lsRotors]

SaveRotorsCall ==
  \E rotors \in SavedMaps, canStore \in BOOLEAN :
    \E r \in {saveRotors(lsRotors, rotors, canStore)} :
      /\ Returns([NoCall EXCEPT !.op = "saveRotors", !.size = MapSize(rotors)], r)
      /\ known' = IF r.success THEN [tracked |-> FALSE, rotors |-> EmptyMap] ELSE known
      /\ UNCHANGED StoreRest

AddRotorCall ==
  \E rotorConfig \in SentRotors, canStore \in BOOLEAN :
    \E r \in {addRotor(lsRotors, rotorConfig, canStore)} :
      /\ Returns([NoCall EXCEPT !.op = "addRotor", !.id = rotorConfig.id,
                                !.sent = rotorConfig], r)
      /\ known' = IF r.success
                  THEN [known EXCEPT !.rotors = MapSet(@, rotorConfig.id, rotorConfig)]
                  ELSE known
      /\ UNCHANGED StoreRest

UpdateRotorCall ==
  \E rotorConfig \in SentRotors, canStore \in BOOLEAN :
    \E r \in {updateRotor(lsRotors, rotorConfig, canStore)} :
      /\ Returns([NoCall EXCEPT !.op = "updateRotor", !.id = rotorConfig.id,
                                !.sent = rotorConfig], r)
      /\ known' = IF r.success
                  THEN [known EXCEPT !.rotors = MapSet(@, rotorConfig.id, rotorConfig)]
                  ELSE known
      /\ UNCHANGED StoreRest

RemoveRotorCall ==
  \E rotorId \in ActiveIds, canStore \in BOOLEAN :
    \E r \in {removeRotor(lsRotors, rotorId, canStore)} :
      /\ Returns([NoCall EXCEPT !.op = "removeRotor", !.id = rotorId], r)
      /\ known' = IF r.success
                  THEN [known EXCEPT !.rotors = MapDelete(@, rotorId)]
                  ELSE known
      /\ UNCHANGED StoreRest

GetRotorCall ==
  \E rotorId \in ActiveIds :
    \E r \in {getRotor(lsRotors, rotorId)} :
      /\ lastCall' = [NoCall EXCEPT !.op = "getRotor", !.id = rotorId,
                                    !.success = r.success, !.error = r.error,
                                    !.before = lsRotors, !.got = r.data]
      /\ UNCHANGED <<lsRotors, known, StoreRest>>

ImportRotorsCall ==
  \E importData \in ImportFiles, overwriteExisting \in BOOLEAN, canStore \in BOOLEAN :
    \E r \in {importRotors(lsRotors, importData, overwriteExisting, canStore)} :
      /\ Returns([NoCall EXCEPT !.op = "importRotors", !.imports = importData.rotors,
                                !.overwrite = overwriteExisting, !.data = r.data], r)
      /\ known' = IF r.success /\ r.data.imported > 0
                  THEN [tracked |-> FALSE, rotors |-> EmptyMap] ELSE known
      /\ UNCHANGED StoreRest

ClearAllRotorsCall ==
  \E r \in {clearAllRotors(lsRotors)} :
    /\ Returns([NoCall EXCEPT !.op = "clearAllRotors"], r)
    /\ known' = NothingKnown
    /\ UNCHANGED StoreRest

NextStore ==
  \/ SaveRotorsCall
  \/ AddRotorCall
  \/ UpdateRotorCall
  \/ RemoveRotorCall
  \/ GetRotorCall
  \/ ImportRotorsCall
  \/ ClearAllRotorsCall

SpecStore == InitStore /\ [][NextStore]_vars


(***************************************************************************)
(* MessageProcessor (components/encryption/MessageProcessor.tsx): the      *)
(* component's state, its handlers, and the call handleProcess makes into  *)
(* the engine.  TypeScript types are erased at run time, so the engine is  *)
(* modelled on the JavaScript values it is handed.  handleCopy is left     *)
(* out: it reads outputMessage and writes `error` if the clipboard fails.  *)
(***************************************************************************)
Undefined == [kind |-> "undefined"]
JsArray(items) == [kind |-> "array", items |-> items]
JsObject(props) == [kind |-> "object", props |-> props]
JsMap(entries) == [kind |-> "map", entries |-> entries]

\* obj[name]: an Array has none of the properties the engine reads
GetProperty(obj, name) ==
  IF obj.kind = "object" /\ name \in DOMAIN obj.props THEN obj.props[name] ELSE Undefined

\* Array.isArray
IsArray(value) == value.kind = "array"

\* validateEncryptionConfig on whatever value it is handed
validateEncryptionConfigValue(configValue) ==
  LET rotorIds == GetProperty(configValue, "rotorIds")
      startPositions == GetProperty(configValue, "startPositions") IN
  IF ~IsArray(rotorIds)
  THEN Err("INVALID_ROTOR_IDS", <<>>, <<>>)
  ELSE IF Len(rotorIds.items) = 0
  THEN Err("NO_ROTORS_SPECIFIED", <<>>, <<>>)
  ELSE IF Len(rotorIds.items) > MAX_ACTIVE_ROTORS
  THEN Err("TOO_MANY_ROTORS", <<>>, <<Len(rotorIds.items)>>)
  ELSE IF ~IsArray(startPositions)
  THEN Err("INVALID_START_POSITIONS", <<>>, <<>>)
  ELSE validateEncryptionConfig([rotorIds |-> rotorIds.items,
                                 startPositions |-> startPositions.items])

\* encryptText / decryptText on the values they are handed: [error, ret]
TextCall(kind, t, configValue, availableValue) ==
  LET v == validateEncryptionConfigValue(configValue) IN
  IF v.code # "NONE" THEN [error |-> v, ret |-> NoResult]
  ELSE IF validateEncryptableText(t).code # "NONE"
  THEN [error |-> validateEncryptableText(t), ret |-> NoResult]
  ELSE IF availableValue.kind # "map"
  THEN [error |-> Err("GET_IS_NOT_A_FUNCTION", <<>>, <<>>), ret |-> NoResult]
  ELSE RunAlone(kind, t,
                [rotorIds |-> GetProperty(configValue, "rotorIds").items,
                 startPositions |-> GetProperty(configValue, "startPositions").items],
                availableValue.entries)

\* error: string | null
Null == "null"

\* String.prototype.trim: without the spaces at both ends
RECURSIVE TrimStart(_)
TrimStart(message) ==
  IF Len(message) > 0 /\ message[1] = " " THEN TrimStart(Tail(message)) ELSE message

RECURSIVE TrimEnd(_)
TrimEnd(message) ==
  IF Len(message) > 0 /\ message[Len(message)] = " "
  THEN TrimEnd(SubSeq(message, 1, Len(message) - 1)) ELSE message

Trim(message) == TrimEnd(TrimStart(message))

\* selections RotorSelector reports, out of the rotors loadAvailableRotors found
Selections ==
  {<<>>, <<AvailableRotors["affine"]>>,
   <<AvailableRotors["shift"], AvailableRotors["affine"]>>}

\* positions StartPositionControls reports
PositionReports == {<<64>>, <<1, 64>>}

\* messages MessageInput reports
TypedMessages == {<<>>, <<" ">>, <<"A", "z">>, <<" ", "k">>}

InitialState ==
  [selectedRotors |-> <<>>, startPositions |-> <<>>, inputMessage |-> <<>>,
   outputMessage |-> <<>>, isEncrypting |-> FALSE, mode |-> "encrypt", error |-> Null]

InitProcessor ==
  /\ CoreUnused /\ ConfigUnused /\ PairUnused /\ StepUnused /\ SymbolUnused /\ GenUnused
  /\ StoreUnused
  /\ mpState = InitialState
  /\ mpPc = "idle"
  /\ mpAsked = InitialState

ProcessorRest == <<codecVars, driverVars, permVars, rotorVars,
                   configVars, pairVars, stepVars, symbolVars, genVars, storeVars>>

HandleRotorSelection ==
  /\ mpPc # "unused"
  /\ \E rotors \in Selections :
       mpState' = [mpState EXCEPT !.selectedRotors = rotors,
                                  !.startPositions = [k \in 1..Len(rotors) |-> 1],
                                  !.error = Null]
  /\ UNCHANGED <<mpPc, mpAsked, ProcessorRest>>

\* StartPositionControls is rendered when a rotor is selected
HandleStartPositionChange ==
  /\ mpPc # "unused" /\ Len(mpState.selectedRotors) > 0
  /\ \E positions \in PositionReports :
       mpState' = [mpState EXCEPT !.startPositions = positions, !.error = Null]
  /\ UNCHANGED <<mpPc, mpAsked, ProcessorRest>>

\* MessageInput is disabled while state.isEncrypting
HandleInputChange ==
  /\ mpPc # "unused" /\ ~mpState.isEncrypting
  /\ \E message \in TypedMessages :
       mpState' = [mpState EXCEPT !.inputMessage = message, !.error = Null]
  /\ UNCHANGED <<mpPc, mpAsked, ProcessorRest>>

HandleModeChange ==
  /\ mpPc # "unused"
  /\ \E m \in {"encrypt", "decrypt"} :
       mpState' = [mpState EXCEPT !.mode = m, !.error = Null]
  /\ UNCHANGED <<mpPc, mpAsked, ProcessorRest>>

\* handleProcess up to its await; EncryptionActions is told isProcessing and
\* starts no second run while one is awaited
HandleProcess ==
  /\ mpPc = "idle"
  /\ IF Len(Trim(mpState.inputMessage)) = 0
     THEN /\ mpState' = [mpState EXCEPT !.error = "Please enter a message to process"]
          /\ UNCHANGED <<mpPc, mpAsked>>
     ELSE IF Len(mpState.selectedRotors) = 0
     THEN /\ mpState' = [mpState EXCEPT !.error = "Please select at least one rotor"]
          /\ UNCHANGED <<mpPc, mpAsked>>
     ELSE IF Len(mpState.startPositions) # Len(mpState.selectedRotors)
     THEN /\ mpState' = [mpState EXCEPT
                           !.error = "Start positions must be set for all rotors"]
          /\ UNCHANGED <<mpPc, mpAsked>>
     ELSE /\ mpState' = [mpState EXCEPT !.isEncrypting = TRUE, !.error = Null]
          /\ mpPc' = "importing"
          /\ mpAsked' = mpState
  /\ UNCHANGED ProcessorRest

\* handleProcess from the resolved import on: the call into the engine with
\* the state the handler closed over, then the success or the catch update
HandleProcessResume ==
  /\ mpPc = "importing"
  /\ \E r \in {TextCall(mpAsked.mode, mpAsked.inputMessage,
                        JsArray(mpAsked.selectedRotors),
                        JsArray(mpAsked.startPositions))} :
       IF r.error.code = "NONE"
       THEN mpState' = [mpState EXCEPT !.outputMessage = r.ret.result,
                                       !.isEncrypting = FALSE]
       ELSE mpState' = [mpState EXCEPT !.error = r.error.code,
                                       !.isEncrypting = FALSE]
  /\ mpPc' = "idle"
  /\ UNCHANGED <<mpAsked, ProcessorRest>>

HandleClear ==
  /\ mpPc # "unused"
  /\ mpState' = [mpState EXCEPT !.inputMessage = <<>>, !.outputMessage = <<>>,
                                !.error = Null]
  /\ UNCHANGED <<mpPc, mpAsked, ProcessorRest>>

HandleSwapMessages ==
  /\ mpPc # "unused"
  /\ mpState' = [mpState EXCEPT
                   !.inputMessage = mpState.outputMessage,
                   !.outputMessage = <<>>,
                   !.mode = IF mpState.mode = "encrypt" THEN "decrypt" ELSE "encrypt",
                   !.error = Null]
  /\ UNCHANGED <<mpPc, mpAsked, ProcessorRest>>

NextProcessor ==
  \/ HandleRotorSelection
  \/ HandleStartPositionChange
  \/ HandleInputChange
  \/ HandleModeChange
  \/ HandleProcess
  \/ HandleProcessResume
  \/ HandleClear
  \/ HandleSwapMessages

\* the promise of the dynamic import resolves
SpecProcessor ==
  InitProcessor /\ [][NextProcessor]_vars /\ WF_vars(HandleProcessResume)

(***************************************************************************)
(* Properties.                                                             *)
(***************************************************************************)
Has(seq, v) == \E k \in 1..Len(seq) : seq[k] = v

\* C1: a round trip returns the plaintext: decryptText applied to the result
\* of encryptText, with the same configuration and rotors, returns the text
\* that was encrypted.
C1_RoundTripRestoresText ==
  (pc = "done" /\ mode = "roundtrip") => decResult.result = text

\* C2: the positions at which decryptCharacter inverse-transforms the k-th
\* character are the positions at which encryptCharacter forward-transformed
\* the k-th character.
C2_SamePositionSequence ==
  mode = "roundtrip" =>
    \A k \in 1..Len(decTrace) : decTrace[k] = encTrace[k]

\* C3: after a round trip over an alphabet-only text, decryptText reports the
\* same finalPositions as encryptText did.
C3_FinalPositionsAgree ==
  (pc = "done" /\ mode = "roundtrip") =>
    /\ encResult.returned /\ decResult.returned
    /\ decResult.finalPositions = encResult.finalPositions

C3_Witness ==
  /\ pc = "done" /\ mode = "roundtrip"
  /\ Len(text) >= 128
  /\ Len(activeRotors) = 2
  /\ activeRotors[1].stepCount = 2
  /\ config.startPositions = <<64, 64>>
  /\ decResult.finalPositions[1] = 2

\* C4: for a rotor with a validated permutation at any position 1..64 and any
\* alphabet character, the inverse transform of the forward transform at the
\* same position returns the character.
C4_InverseUndoesForward ==
  trPc = "decrypted" => (trDec.err = "NONE" /\ trDec.ch = trChar)

C4_Witness ==
  /\ trPc = "decrypted"
  /\ trRotor.config.id = "affine" /\ trRotor.position = 64
  /\ trChar = "." /\ trEnc.ch # trChar

\* C5: encryptText and decryptText never raise an error because the text holds
\* an out-of-alphabet character: a call with a valid configuration and known,
\* valid rotors does not fail, whatever the text.
C5_BadCharacterNeverFails ==
  (mode \in {"roundtrip", "decrypt"} /\ pc = "failed")
    => error.code # "INVALID_CHARACTERS"

\* C6: after N in-alphabet characters the rightmost rotor's stepCount is N and
\* every other rotor's stepCount is the floor of its right neighbour's
\* stepCount divided by 64, whatever the start positions.
C6_StepCountsNest ==
  drvMode # "unused" =>
    LET n == Len(drvRotors) IN
      /\ drvRotors[n].stepCount = drvCount
      /\ \A i \in 1..(n - 1) :
           drvRotors[i].stepCount = drvRotors[i + 1].stepCount \div 64

C6_Witness ==
  /\ Len(drvRotors) = 3
  /\ drvCount = 4096
  /\ drvRotors[3].stepCount = 4096
  /\ drvRotors[2].stepCount = 64
  /\ drvRotors[1].stepCount = 1
  /\ drvRotors[3].position = 33

\* the candidate has exactly 64 elements, all integers in 0..63, every value
\* of 0..63 exactly once
IsBijection(p) ==
  /\ Len(p) = 64
  /\ \A k \in 1..Len(p) : IsInteger(p[k]) /\ p[k] >= 0 /\ p[k] <= 63
  /\ \A v \in 0..63 : Cardinality({k \in 1..Len(p) : p[k] = v}) = 1

ValidationCodes ==
  {"INVALID_LENGTH", "NON_INTEGER_ELEMENT", "OUT_OF_RANGE_ELEMENT",
   "DUPLICATE_VALUES", "MISSING_VALUES"}

\* C7: validateRotorPermutation returns without error exactly for the
\* candidates that are bijections on 0..63, and rejects every other candidate
\* with a RotorValidationError.
C7_AcceptsExactlyBijections ==
  permPc \in {"accepted", "rejected"} =>
    /\ (permPc = "accepted") <=> IsBijection(candidate)
    /\ (permPc = "accepted") <=> (verdict.code = "NONE")
    /\ (permPc = "rejected") => verdict.code \in ValidationCodes

C7_Witness ==
  /\ permPc = "accepted"
  /\ candidate[11] = 37 /\ candidate[38] = 10

\* 64 in-range integers, 37 absent, 10 present twice
LacksAndRepeats(p) ==
  /\ Len(p) = 64
  /\ \A k \in 1..Len(p) : IsInteger(p[k]) /\ p[k] >= 0 /\ p[k] <= 63
  /\ ~Has(p, 37)
  /\ Cardinality({k \in 1..Len(p) : p[k] = 10}) = 2

Offenders(p) ==
  {i \in 0..(Len(p) - 1) : ~IsInteger(p[i + 1]) \/ p[i + 1] < 0 \/ p[i + 1] > 63}

\* C9 as claimed: when several elements of a 64-element candidate are
\* non-integers or out of range, the error reports every one of them.
C9_ErrorReportsEveryOffender ==
  (permPc = "rejected" /\ Len(candidate) = 64) =>
    \A i \in Offenders(candidate) :
      Has(verdict.indices, i) /\ Has(verdict.values, candidate[i + 1])

\* C9 as amended: the error reports the offending element of lowest index
\* only, its index and its value, as NON_INTEGER_ELEMENT when that element is
\* not an integer and as OUT_OF_RANGE_ELEMENT otherwise.
C9_ErrorReportsFirstOffender ==
  (permPc \in {"accepted", "rejected"} /\ Len(candidate) = 64
     /\ Offenders(candidate) # {}) =>
    LET first == CHOOSE i \in Offenders(candidate) :
                   \A j \in Offenders(candidate) : i <= j IN
      /\ permPc = "rejected"
      /\ verdict.indices = <<first>>
      /\ verdict.values = <<candidate[first + 1]>>
      /\ verdict.code = IF IsInteger(candidate[first + 1])
                        THEN "OUT_OF_RANGE_ELEMENT" ELSE "NON_INTEGER_ELEMENT"

C9_Witness ==
  /\ permPc = "rejected" /\ Len(candidate) = 64
  /\ Cardinality(Offenders(candidate)) >= 2
  /\ verdict.indices = <<10>>
  /\ ~IsInteger(candidate[38])

\* the configuration lists no rotor, or an id the lookup has no definition for
Misconfigured ==
  \/ Len(config.rotorIds) = 0
  \/ \E k \in 1..Len(config.rotorIds) : config.rotorIds[k] \notin DOMAIN AvailableRotors

\* C10: with no rotors or an unknown rotor id, encryptText and decryptText
\* raise an error and return no result: nothing is produced and no rotor is
\* created or stepped; encryptCharacter and decryptCharacter raise an error
\* on an empty rotor array.
C10_StructuralErrorIsFatal ==
  /\ (mode \in {"roundtrip", "decrypt"} /\ Misconfigured /\ pc # "unused") =>
       /\ pc \in {"idle", "failed"}
       /\ pc = "failed" => error.code # "NONE"
       /\ ~encResult.returned /\ ~decResult.returned
       /\ result = <<>> /\ activeRotors = <<>> /\ encTrace = <<>> /\ decTrace = <<>>
  /\ (mode \in {"encryptChar", "decryptChar"} /\ Len(config.rotorIds) = 0) =>
       /\ pc \in {"idle", "failed"}
       /\ pc = "failed" => error.code = "NO_ROTORS"
       /\ result = <<>> /\ activeRotors = <<>>

C10_Witness ==
  /\ pc = "failed" /\ mode = "roundtrip"
  /\ error.code = "ROTOR_NOT_FOUND"
  /\ config.rotorIds = <<"shift", "ghost">>
  /\ Len(text) > 0

\* the configuration lists 1 to 8 rotor ids, as many start positions, every
\* start position an integer in 1..64, and no id twice
IsValidConfig(c) ==
  /\ Len(c.rotorIds) >= 1 /\ Len(c.rotorIds) <= 8
  /\ Len(c.startPositions) = Len(c.rotorIds)
  /\ \A k \in 1..Len(c.startPositions) :
       IsInteger(c.startPositions[k]) /\ c.startPositions[k] >= 1 /\ c.startPositions[k] <= 64
  /\ \A k, l \in 1..Len(c.rotorIds) : k # l => c.rotorIds[k] # c.rotorIds[l]

ConfigCodes ==
  {"NO_ROTORS_SPECIFIED", "TOO_MANY_ROTORS", "POSITION_COUNT_MISMATCH",
   "INVALID_START_POSITION", "DUPLICATE_ROTOR_IDS"}

\* C11: validateEncryptionConfig accepts a configuration exactly when it has
\* 1 to 8 rotor ids, as many start positions, every start position an integer
\* in 1..64 and no id twice; otherwise it raises a RotorValidationError.
C11_AcceptsExactlyValidConfigs ==
  cfgPc \in {"accepted", "rejected"} =>
    /\ (cfgPc = "accepted") <=> IsValidConfig(cfgCandidate)
    /\ (cfgPc = "accepted") <=> (cfgVerdict.code = "NONE")
    /\ (cfgPc = "rejected") => cfgVerdict.code \in ConfigCodes

C11_Witness ==
  /\ cfgPc = "accepted"
  /\ Len(cfgCandidate.rotorIds) = 8
  /\ cfgCandidate.startPositions[8] = 64

Finished(c) == calls[c].pc \in {"returned", "threw"}

C12_EachCallAsAlone ==
  /\ lookup = AvailableRotors
  /\ \A c \in 1..Len(calls) :
       /\ \A k \in 1..Len(calls[c].activeRotors) :
            calls[c].activeRotors[k].config = AvailableRotors[calls[c].config.rotorIds[k]]
       /\ Finished(c) =>
            LET a == RunAlone(calls[c].kind, calls[c].text, calls[c].config, AvailableRotors) IN
              /\ calls[c].error = a.error
              /\ calls[c].ret = a.ret

C12_OnlyOwnRotorsChange ==
  \E c \in 1..Len(calls) :
    /\ \A o \in 1..Len(calls) : o # c => calls'[o] = calls[o]
    /\ calls'[c].kind = calls[c].kind
    /\ calls'[c].text = calls[c].text
    /\ calls'[c].config = calls[c].config
    /\ lookup' = lookup

\* C12: two encryptText / decryptText calls whose character steps interleave
\* in any order, also over the same rotor definitions, each return what they
\* return alone; a step changes only the locals of the call that takes it,
\* and the definitions, the lookup map and the configurations stay as given.
C12_InterleavedCallsIsolated ==
  []C12_EachCallAsAlone /\ [][C12_OnlyOwnRotorsChange]_vars

C12_Witness ==
  /\ overlap
  /\ calls[1].pc = "returned" /\ calls[2].pc = "returned"
  /\ Len(calls[1].text) = 2 /\ Len(calls[2].text) = 2
  /\ calls[1].kind # calls[2].kind
  /\ calls[1].config = calls[2].config
  /\ Len(calls[1].config.rotorIds) = 2

C14_SteppedRotor ==
  stPc = "stepped" =>
    /\ stOut.position = IF stIn.position = 64 THEN 1 ELSE stIn.position + 1
    /\ stOut.stepCount = stIn.stepCount + 1
    /\ stOut.config = stIn.config
    /\ stOut.config \in {createTestRotor, RotorConfigOf("affine", AffinePermutation)}

\* C14: stepRotor returns a rotor whose position is 1 when the input's is 64
\* and the input's position + 1 otherwise, whose stepCount is the input's + 1;
\* the rotor passed in and the definition it refers to stay as they were.
C14_StepRotorReturnsNewState ==
  []C14_SteppedRotor /\ [][stIn' = stIn]_vars

C14_Witness ==
  /\ stPc = "stepped"
  /\ stIn.position = 64 /\ stIn.stepCount = 63
  /\ stOut.position = 1 /\ stOut.stepCount = 64

\* C15: charToIndex(indexToChar(i)) = i for every i in 0..63, and
\* indexToChar(charToIndex(c)) = c for each of the 64 characters of the
\* alphabet; neither conversion throws on these.
C15_SymbolCodecInverse ==
  /\ cdPc = "indexBack" => cdOut = cdIn
  /\ cdPc = "charBack" => cdOut = cdIn
  /\ cdPc = "gotIndex" => cdMid \in 0..63
  /\ cdPc = "indexThrew" => cdIn \notin 0..63
  /\ cdPc = "charThrew" => \A k \in 1..64 : CHARSET[k] # cdIn
  /\ cdPc # "backThrew"

C15_Witness ==
  /\ cdPc = "indexBack"
  /\ cdIn = 63 /\ cdMid = "." /\ cdOut = 63

\* C16: every generation utility produces a permutation the validator
\* accepts: the Fisher-Yates loop of generateRandomPermutation keeps a
\* bijection on 0..63 whatever is drawn, so its final validation never fails,
\* and createTestRotor and createIdentityRotor pass validation.
C16_GeneratorsYieldBijections ==
  /\ genPc # "failed"
  /\ genPc = "shuffling" => IsBijection(genPerm)
  /\ genPc = "done" => (IsBijection(genPerm) /\ genErr.code = "NONE")
  /\ (genPc = "done" /\ genKind = "test") => genPerm = createTestRotor.permutation
  /\ (genPc = "done" /\ genKind = "identity") => genPerm = createIdentityRotor.permutation

C16_Witness ==
  /\ genPc = "done" /\ genKind = "random"
  /\ genPerm[64] # 63 /\ genPerm[1] # 0 /\ genPerm[32] # 31

OnlyShiftIdent(c) == \A k \in 1..Len(c.rotorIds) : c.rotorIds[k] \in ShiftIdentIds
InAlphabet(t) == \A k \in 1..Len(t) : \E a \in 1..64 : CHARSET[a] = t[k]

\* C17: with shift and identity rotors only, at any start positions (the
\* example: [shift, identity] at [1, 32] on "Hello World."), decryptText of
\* encryptText's result returns the text, and both runs report the same
\* final positions.
C17_ShiftIdentityRoundTrip ==
  (mode = "roundtrip" /\ OnlyShiftIdent(config) /\ InAlphabet(text)) =>
    /\ pc # "failed"
    /\ pc = "done" =>
         /\ decResult.result = text
         /\ decResult.finalPositions = encResult.finalPositions

C17_Witness ==
  /\ pc = "done" /\ mode = "roundtrip"
  /\ text = HelloWorld
  /\ config = [rotorIds |-> <<"shift", "ident">>, startPositions |-> <<1, 32>>]
  /\ encResult.result # text
  /\ decResult.result = HelloWorld

\* the character one place after c in the alphabet, wrapping round
NextInAlphabet(c) ==
  LET a == CHOOSE a \in 1..64 : CHARSET[a] = c IN CHARSET[(((a - 1) + 1) % 64) + 1]

\* C18: with the single shift rotor at position 1, encryptText of a one
\* character text c returns the character at index (index(c) + 1) mod 64
\* ("A" gives "B") and decryptText of that output returns c ("B" gives "A").
C18_ShiftAtOneMovesOnePlace ==
  (config = ShiftAtOne /\ Len(text) = 1 /\ InAlphabet(text)) =>
    /\ pc # "failed"
    /\ (mode = "roundtrip" /\ encResult.returned) =>
         encResult.result = <<NextInAlphabet(text[1])>>
    /\ (mode = "roundtrip" /\ decResult.returned) => decResult.result = text
    /\ (mode = "decrypt" /\ decResult.returned) =>
         text = <<NextInAlphabet(decResult.result[1])>>

C18_Witness ==
  /\ config = ShiftAtOne /\ mode = "roundtrip" /\ pc = "done"
  /\ text = <<"A">>
  /\ encResult.result = <<"B">>
  /\ ciphertext = <<"B">>
  /\ decResult.result = <<"A">>

C19_WitnessText ==
  /\ pc = "encDone" /\ config = IdentAtOne /\ encResult.result = <<"A">>

\* C20: after encryptText of a text of L alphabet characters with a single
\* rotor started at s, charactersProcessed is L and the final position is
\* ((s - 1 + L) mod 64) + 1; for the empty text the result is empty and every
\* final position is the start position.
C20_FinalPositionCountsCharacters ==
  (mode = "roundtrip" /\ InAlphabet(text)) =>
    /\ pc # "failed"
    /\ (encResult.returned /\ Len(config.rotorIds) = 1) =>
         /\ encResult.charactersProcessed = Len(text)
         /\ encResult.finalPositions =
              <<((config.startPositions[1] - 1 + Len(text)) % 64) + 1>>
    /\ (encResult.returned /\ Len(text) = 0) =>
         /\ encResult.result = <<>>
         /\ encResult.charactersProcessed = 0
         /\ encResult.finalPositions = config.startPositions

C20_Witness ==
  /\ pc = "encDone" /\ text = ABC
  /\ config = [rotorIds |-> <<"affine">>, startPositions |-> <<1>>]
  /\ encResult.finalPositions = <<4>> /\ encResult.charactersProcessed = 3

\* the rotors loadRotors finds in an item
StoredIn(item) == loadRotors(item).data

\* C21: whatever saveRotors, addRotor, updateRotor, removeRotor, importRotors
\* and clearAllRotors calls were made on a storage that began empty, at most
\* MAX_STORED_ROTORS (10) rotors are stored; a saveRotors of more than 10
\* rotors, and an addRotor of a new id when 10 are stored, return
\* success = false.
C21_StoredAtMostTen ==
  /\ MapSize(lsRotors.rotors) <= MAX_STORED_ROTORS
  /\ MapSize(StoredIn(lsRotors)) <= MAX_STORED_ROTORS
  /\ (lastCall.op = "saveRotors" /\ lastCall.size > MAX_STORED_ROTORS) =>
       ~lastCall.success
  /\ (lastCall.op = "addRotor"
        /\ lastCall.id \notin DOMAIN StoredIn(lastCall.before)
        /\ MapSize(StoredIn(lastCall.before)) + 1 > MAX_STORED_ROTORS) =>
       ~lastCall.success

C21_Witness ==
  /\ lastCall.op = "addRotor" /\ ~lastCall.success
  /\ lastCall.id \notin DOMAIN StoredIn(lastCall.before)
  /\ MapSize(StoredIn(lsRotors)) = MAX_STORED_ROTORS
  /\ StoreIdPool[1] \notin DOMAIN StoredIn(lsRotors)

\* C22: addRotor with an id that is already stored, and updateRotor and
\* removeRotor with an id that is not stored, return success = false and
\* leave the stored rotors exactly as they were.
C22_RejectedCallsChangeNothing ==
  /\ (lastCall.op = "addRotor" /\ lastCall.id \in DOMAIN StoredIn(lastCall.before)) =>
       (~lastCall.success /\ lsRotors = lastCall.before)
  /\ (lastCall.op \in {"updateRotor", "removeRotor"}
        /\ lastCall.id \notin DOMAIN StoredIn(lastCall.before)) =>
       (~lastCall.success /\ lsRotors = lastCall.before)

C22_Witness ==
  /\ lastCall.op = "addRotor" /\ lastCall.sent = RotorB(StoreIdPool[1])
  /\ lastCall.error = "already exists"
  /\ StoreIdPool[1] \in DOMAIN StoredIn(lsRotors)
  /\ StoredIn(lsRotors)[StoreIdPool[1]] = RotorA(StoreIdPool[1])

\* C23: as long as only addRotor, updateRotor, removeRotor and clearAllRotors
\* have changed the storage (known.tracked), getRotor(id) succeeds exactly
\* when the id was added and not removed or cleared since, and it returns the
\* rotor of the latest successful addRotor or updateRotor for that id; after
\* clearAllRotors, loadRotors returns an empty map.
C23_GetRotorFollowsHistory ==
  /\ (known.tracked /\ lastCall.op = "getRotor") =>
       /\ lastCall.success <=> lastCall.id \in DOMAIN known.rotors
       /\ lastCall.success => lastCall.got = known.rotors[lastCall.id]
  /\ lastCall.op = "clearAllRotors" =>
       (loadRotors(lsRotors).success /\ loadRotors(lsRotors).data = EmptyMap)

C23_Witness ==
  /\ known.tracked /\ lastCall.op = "getRotor" /\ lastCall.success
  /\ lastCall.got = RotorB(StoreIdPool[1])
  /\ StoreIdPool[StoreIds] \in DOMAIN known.rotors

\* positions of an import file whose id loadRotors finds in the item
AlreadyStored(imports, item) ==
  {i \in 1..Len(imports) : imports[i].id \in DOMAIN StoredIn(item)}

\* C24: a successful importRotors with overwriteExisting = false leaves every
\* stored rotor whose id is in the file as it was and counts it as skipped;
\* with overwriteExisting = true it replaces the stored rotor by the file's
\* and counts it as imported.
C24_ImportHonoursOverwrite ==
  (lastCall.op = "importRotors" /\ lastCall.success) =>
    LET hits == AlreadyStored(lastCall.imports, lastCall.before) IN
      /\ \A i \in hits :
           LET id == lastCall.imports[i].id IN
             /\ id \in DOMAIN StoredIn(lsRotors)
             /\ StoredIn(lsRotors)[id] =
                  IF lastCall.overwrite THEN storedToRotorConfig(lastCall.imports[i])
                  ELSE StoredIn(lastCall.before)[id]
      /\ ~lastCall.overwrite => lastCall.data.skipped = Cardinality(hits)
      /\ lastCall.overwrite =>
           (lastCall.data.skipped = 0 /\ lastCall.data.imported >= Cardinality(hits))

C24_Witness ==
  /\ lastCall.op = "importRotors" /\ lastCall.success /\ ~lastCall.overwrite
  /\ lastCall.imports[1] = rotorConfigToStored(RotorB(StoreIdPool[1]))
  /\ StoredIn(lastCall.before) = FirstRotors(MAX_STORED_ROTORS - 1)
  /\ StoredIn(lsRotors)[StoreIdPool[1]] = RotorA(StoreIdPool[1])
  /\ lastCall.data = [imported |-> 1, skipped |-> 1, errors |-> 0]

C24_WitnessOverwrite ==
  /\ lastCall.op = "importRotors" /\ lastCall.success /\ lastCall.overwrite
  /\ StoreIdPool[1] \in DOMAIN StoredIn(lastCall.before)
  /\ StoredIn(lastCall.before)[StoreIdPool[1]] = RotorA(StoreIdPool[1])
  /\ StoredIn(lsRotors)[StoreIdPool[1]] = RotorB(StoreIdPool[1])
  /\ lastCall.data.imported = 2

\* one rotor's forward substitution at a position, written out on indices
ForwardAtPosition(char, permutation, position) ==
  LET x == CHOOSE a \in 0..63 : CHARSET[a + 1] = char
      y == permutation[((x + position - 1) % 64) + 1]
  IN CHARSET[((y - (position - 1) + 64) % 64) + 1]

\* one rotor's inverse substitution at a position
InverseAtPosition(char, permutation, position) ==
  LET y == CHOOSE a \in 0..63 : CHARSET[a + 1] = char
      x == CHOOSE a \in 0..63 : permutation[a + 1] = (y + position - 1) % 64
  IN CHARSET[((x - (position - 1) + 64) % 64) + 1]

\* rotors i, i+1, ..., n in turn (1-based)
RECURSIVE LeftToRight(_, _, _, _)
LeftToRight(char, rotorIds, positions, i) ==
  IF i > Len(rotorIds) THEN char
  ELSE LeftToRight(ForwardAtPosition(char, AvailableRotors[rotorIds[i]].permutation,
                                     positions[i]),
                   rotorIds, positions, i + 1)

\* rotors i, i-1, ..., 1 in turn (1-based)
RECURSIVE RightToLeft(_, _, _, _)
RightToLeft(char, rotorIds, positions, i) ==
  IF i < 1 THEN char
  ELSE RightToLeft(InverseAtPosition(char, AvailableRotors[rotorIds[i]].permutation,
                                     positions[i]),
                   rotorIds, positions, i - 1)

C25_EncryptedCharacter ==
  (pc = "enc" /\ Len(result') = Len(result) + 1) =>
    LET n == Len(activeRotors) IN
      /\ result'[Len(result')] =
           LeftToRight(text[idx + 1], config.rotorIds, Positions(activeRotors), 1)
      /\ idx = 0 => Positions(activeRotors) = config.startPositions
      /\ activeRotors'[n].stepCount = activeRotors[n].stepCount + 1
      /\ \A i \in 1..(n - 1) :
           activeRotors'[i] # activeRotors[i] <=>
             \A j \in (i + 1)..n : activeRotors'[j].stepCount % 64 = 0

C25_DecryptedCharacter ==
  (pc = "dec" /\ Len(result') = Len(result) + 1) =>
    result'[Len(result')] =
      RightToLeft(ciphertext[idx + 1], config.rotorIds, Positions(activeRotors'),
                  Len(activeRotors))

\* C25: encryptCharacter sends the character through the forward transforms
\* of the rotors from left to right at the positions the rotors have before
\* the call steps any of them, and only then steps the rightmost rotor and
\* cascades (a rotor to the left steps when all rotors right of it have a
\* stepCount that is a multiple of 64); so the first character of a text is
\* transformed at the configured start positions.  decryptCharacter sends
\* the character through the inverse transforms from right to left.
C25_TransformThenStep ==
  [][C25_EncryptedCharacter /\ C25_DecryptedCharacter]_vars

C25_Witness ==
  /\ pc = "enc" /\ idx = 1 /\ text = <<"A", "z">>
  /\ config = [rotorIds |-> <<"shift", "affine">>, startPositions |-> <<64, 1>>]
  /\ result = <<LeftToRight("A", <<"shift", "affine">>, <<64, 1>>, 1)>>
  /\ result # <<LeftToRight("A", <<"affine", "shift">>, <<1, 64>>, 1)>>
  /\ Positions(activeRotors) = <<64, 2>>

C25_WitnessDecrypt ==
  /\ pc = "dec" /\ idx = 1 /\ mode = "decrypt" /\ text = <<"A", "z">>
  /\ config = [rotorIds |-> <<"shift", "affine">>, startPositions |-> <<64, 1>>]
  /\ result = <<RightToLeft("A", <<"shift", "affine">>, <<64, 2>>, 2)>>

C26_LookupFound == trPc = "decrypted" => trDec.err = "NONE"

C26_LoopRaisesNothing == pc \in {"enc", "dec"} => pc' # "failed"

\* C26: for a validated permutation, every position 1..64 and every character
\* of the alphabet, decryptCharacterThroughRotor returns a character (its
\* lookup always finds the output); once encryptText or decryptText has
\* passed its validation and built the active rotors, no iteration of its
\* character loop raises an error.
C26_NoErrorAfterValidation ==
  []C26_LookupFound /\ [][C26_LoopRaisesNothing]_vars

C26_Witness ==
  /\ trPc = "decrypted" /\ trRotor.config.permutation = AffinePermutation
  /\ trRotor.position = 64 /\ trChar = "z" /\ trDec.err = "NONE"

C26_WitnessLoop ==
  /\ pc = "dec" /\ idx = LongLen /\ text = LongText
  /\ config = [rotorIds |-> <<"affine", "shift">>, startPositions |-> <<64, 1>>]

\* C27: in every state of an encryptText or decryptText run, each active
\* rotor's position is an integer in 1..64 and equals
\* ((startPosition - 1 + stepCount) mod 64) + 1.
C27_PositionFollowsStepCount ==
  mode \in {"roundtrip", "decrypt"} =>
    /\ Len(activeRotors) \in {0, Len(config.rotorIds)}
    /\ \A k \in 1..Len(activeRotors) :
         /\ activeRotors[k].position \in ROTOR_POSITION_MIN..ROTOR_POSITION_MAX
         /\ activeRotors[k].position =
              ((config.startPositions[k] - 1 + activeRotors[k].stepCount) % 64) + 1

C27_Witness ==
  /\ pc = "dec" /\ mode = "roundtrip" /\ Len(activeRotors) = 2
  /\ config.startPositions = <<64, 64>>
  /\ activeRotors[2].stepCount = 70 /\ activeRotors[2].position = 6
  /\ activeRotors[1].stepCount = 1 /\ activeRotors[1].position = 1

\* what encryptCharacter returns for the 64 characters of the alphabet when
\* handed these rotors
CipherAlphabet(rotors) ==
  {encryptCharacter(CHARSET[a], rotors) : a \in 1..64}

SubstitutionIsBijection(rotors) ==
  LET out == {r.ch : r \in {r \in CipherAlphabet(rotors) : r.err = "NONE"}} IN
    /\ Cardinality(out) = 64
    /\ \A ch \in out : isValidCharacter(ch)

\* C28: with a fixed valid configuration the rotors at index k of the text
\* are the same whatever the plaintext, and the map from the plaintext
\* character to the ciphertext character at that index is a bijection on
\* the alphabet; so the ciphertext has the length of the plaintext, holds
\* only characters of the alphabet, and two different plaintexts of equal
\* length never encrypt to the same ciphertext.
C28_SubstitutionPerIndexIsBijection ==
  /\ \A c \in 1..Len(calls) :
       /\ calls[c].pc # "threw"
       /\ calls[c].pc = "loop" => SubstitutionIsBijection(calls[c].activeRotors)
       /\ calls[c].pc = "returned" =>
            /\ Len(calls[c].ret.result) = Len(calls[c].text)
            /\ InAlphabet(calls[c].ret.result)
  /\ (calls[1].pc = "loop" /\ calls[2].pc = "loop" /\ calls[1].idx = calls[2].idx) =>
       calls[1].activeRotors = calls[2].activeRotors
  /\ (calls[1].pc = "returned" /\ calls[2].pc = "returned"
        /\ Len(calls[1].text) = Len(calls[2].text) /\ calls[1].text # calls[2].text) =>
       calls[1].ret.result # calls[2].ret.result

C28_Witness ==
  /\ calls[1].pc = "returned" /\ calls[2].pc = "returned"
  /\ calls[1].text = <<"A", "a">> /\ calls[2].text = <<"A", "A">>
  /\ calls[1].config = [rotorIds |-> <<"shift", "affine">>, startPositions |-> <<1, 64>>]
  /\ calls[1].ret.result[1] = calls[2].ret.result[1]
  /\ calls[1].ret.result[2] # calls[2].ret.result[2]

\* the candidate gets as far as the missing-values check
ReachesMissingCheck(permutation) ==
  /\ Len(permutation) = 64
  /\ FirstBadElement(permutation) = -1
  /\ Len(Duplicates(permutation)) = 0

\* C29: validateRotorPermutation never raises MISSING_VALUES: a candidate
\* that reaches the missing-values check (64 elements, all integers in
\* 0..63, no duplicates) contains every value 0..63, and a 64-element
\* candidate that lacks a value is rejected as OUT_OF_RANGE_ELEMENT,
\* NON_INTEGER_ELEMENT or DUPLICATE_VALUES.
C29_MissingValuesNeverRaised ==
  permPc \in {"accepted", "rejected"} =>
    /\ verdict.code # "MISSING_VALUES"
    /\ ReachesMissingCheck(candidate) => 0..63 \subseteq SeenValues(candidate)
    /\ (Len(candidate) = 64 /\ ~(0..63 \subseteq SeenValues(candidate))) =>
         verdict.code \in {"OUT_OF_RANGE_ELEMENT", "NON_INTEGER_ELEMENT", "DUPLICATE_VALUES"}

C29_Witness ==
  /\ permPc = "rejected" /\ Len(candidate) = 64
  /\ FirstBadElement(candidate) = -1
  /\ 37 \notin SeenValues(candidate) /\ 0 \notin SeenValues(candidate)
  /\ verdict.code = "DUPLICATE_VALUES"

\* encryptText / decryptText for the message, the rotors and the start
\* positions a handleProcess run closed over
EngineResult(asked) ==
  LET rotors == asked.selectedRotors
      ids == [k \in 1..Len(rotors) |-> rotors[k].id]
      available == [id \in {rotors[k].id : k \in 1..Len(rotors)} |->
                      rotors[CHOOSE k \in 1..Len(rotors) : rotors[k].id = id]]
  IN CHOOSE r \in {RunAlone(asked.mode, asked.inputMessage,
                            [rotorIds |-> ids, startPositions |-> asked.startPositions],
                            available)} : TRUE

ProcessTaken ==
  /\ mpPc = "importing"
  /\ Len(Trim(mpAsked.inputMessage)) > 0 /\ InAlphabet(mpAsked.inputMessage)
  /\ Len(mpAsked.selectedRotors) > 0
  /\ Len(mpAsked.startPositions) = Len(mpAsked.selectedRotors)

ProcessEndedWell ==
  /\ mpPc = "idle"
  /\ ~mpState.isEncrypting
  /\ mpState.error = Null
  /\ EngineResult(mpAsked).error.code = "NONE"
  /\ mpState.outputMessage = EngineResult(mpAsked).ret.result

\* C30: in MessageProcessor a handleProcess taken with a non-blank message
\* of alphabet characters, at least one selected rotor and one start
\* position per selected rotor eventually ends with isEncrypting = false,
\* error = null and outputMessage equal to what encryptText (in encrypt
\* mode) or decryptText (in decrypt mode) returns for that message, those
\* rotors and those start positions.
C30_ProcessEndsWithEngineResult == ProcessTaken ~> ProcessEndedWell

====
